---- MODULE Spec2Model ----
(***************************************************************************)
(* Event-carrying task execution of simplicity: the consumption driver     *)
(* EventDeps.run (common/event.py), the event channel it drains, the span  *)
(* tree of Context.spawn, event_send and the handles with their            *)
(* re-entrancy flag (common/event.py and                                   *)
(* _pydantic_ai_adapter/agent_utils.py).                                   *)
(*                                                                         *)
(* Scheduling.  EventDeps.run is an async generator.  A yield hands the    *)
(* item to the consumer without returning to the event loop, and the       *)
(* consumers of the repository (collect_results, the engines' main loops)  *)
(* do not await between two items.  The host task therefore reaches the    *)
(* event loop only at the awaits inside the generator: the receive of      *)
(* read_event (pc = "recv") and the task group's exit (pc = "join").  The  *)
(* target coroutine, started with tg.start_soon, runs only then.           *)
(***************************************************************************)
EXTENDS Integers, Sequences, FiniteSets, TLC

\* ------------------------------------------------------------------ bounds
\* Events one target sends in one run.
MaxEvents == 3

\* --------------------------------------------------------------- constants
\* Optional[int] = None of Context.parent_id, and "stream_span = None".
None == 0
\* span_id of the context of the handle the run is started on.
HandleSpan == 1
\* span_id of a handle obtained from it by spawn(): the span of a sibling
\* branch whose events travel through the same channel.
ForkSpan == 2
\* uuid4() values are drawn in this order; a fresh one was never used before.
FirstFreshSpan == 3
\* trace_id of the handle's context (a uuid4() of its own).
HandleTrace == 1

\* The value a target returns (the driver never inspects it), and the
\* placeholder "result = None".
ReturnValues == {"r1"}
NoResult == "None"
\* Errors a target may raise, and "no error".
Errors == {"ValueError"}
NoError == "none"

EventTypes == {"task_start", "task_output", "task_output_stream", "task_output_delta"}

\* ----------------------------------------------------------------- context
Context(trace, span, parent) ==
    [trace_id |-> trace, span_id |-> span, parent_id |-> parent]

\* Context.spawn() with trace_id left to its default factory.
ContextSpawn_NewTrace(ctx, fresh) == Context(fresh, fresh, ctx.span_id)

\* Context.spawn() with parent_id = self.parent_id.
ContextSpawn_Sibling(ctx, fresh) == Context(ctx.trace_id, fresh, ctx.parent_id)

\* Context.spawn(): the trace_id of self, a fresh span_id, parent_id = the
\* span_id of self.
ContextSpawn(ctx, fresh) == Context(ctx.trace_id, fresh, ctx.span_id)

\* The handle's _event_parent (a root context: parent_id = None).
HandleCtx == Context(HandleTrace, HandleSpan, None)
\* The _event_parent of the handle returned by spawn().
ForkCtx == ContextSpawn(HandleCtx, ForkSpan)

NoCtx == Context(None, None, None)

\* ------------------------------------------------------------------ events
\* is_result exists on task_output and task_output_stream, stopped on
\* task_output_delta; the driver reads each only behind the isinstance test
\* of its kind, so the absent field is written FALSE.
Event(type, ctx, is_result, stopped) ==
    [event_type |-> type, ctx |-> ctx, is_result |-> is_result, stopped |-> stopped]

NoEvent == Event("none", NoCtx, FALSE, FALSE)


\* --------------------------------------------------------------- variables
VARIABLES
    chan,         \* DefaultEventCollector: the buffer of the memory object stream
    sent,         \* every event sent through the channel so far, in order
    nextSpan,     \* the next unused uuid4() value
    target,       \* run_task: "unstarted", "running", "returned", "raised", "cancelled"
    raised,       \* the error the target raised, or NoError
    result,       \* the local "result" of run
    stream_span,  \* the local "stream_span" of run (NoCtx for None)
    event,        \* the loop variable "event" of run
    pc,           \* where the generator stands
    line,         \* the source line of the yield it is suspended at (0: none)
    brk,          \* the statement after that yield is "break"
    late,         \* an item handed over before the cancellation was received after it
    yielded,      \* the items the consumer has received, in order
    error,        \* the error the generator raised to the consumer, or NoError
    atBreak,      \* history: the state of the target when the loop was left
    deps,         \* the handles: _event_parent, _event_collector, _event_being_consuming
    active,       \* per handle: the runs on it that are active
    ran,          \* history, per handle: a run was started on it
    rejected,     \* history, per handle: a run on it failed with the re-entrancy error
    nruns,        \* history: the runs started so far
    forkedFrom,   \* history, per handle: the handle it was spawned from (0: none)
    spans,        \* history: the contexts made by Context() and Context.spawn()
    sendLog,      \* history: the calls of event_send (handle, ctx of the event)
    engine,       \* the engine whose fan-out runs: "none", "pardo", "villv"
    fanpc,        \* where that engine method stands
    searched,     \* per source of the fan-out: its publishedTime (None: not set)
    gathered,     \* per sub-task: Pending, or what gather holds for it
    answers,      \* the local "answers" after the filter
    prodFn,       \* the wrapper that was called: "none", "prod_run", "prod_run_stream"
    prodpc,       \* where the wrapper stands
    prodH,        \* the handle that was passed to the wrapper (0: none)
    prodSpan,     \* the local "stream_span" of prod_run_stream
    chunksLeft,   \* what response.stream_text(delta=True) has still to deliver
    prodLog,      \* history: what the wrapper did, in order
    jpc,          \* where search_with_read stands
    num,          \* its argument "num"
    page,         \* its local "page"
    search_l,     \* its local "search_l": the id_ of each search result
    searches,     \* the calls of JinaClient.search so far, one per page
    reads,        \* the calls of JinaClient.read that gather runs, one per result
    result_l,     \* its local "result_l": the id_ of each page that was read
    collect,      \* where run_async_generator and its collect_results stand
    result_queue, \* history: the items put in result_queue, in order
    ui,           \* where the loop of run_search_with_ui_updates stands
    got           \* the number of items that loop has taken from result_queue

vars == <<chan, sent, nextSpan, target, raised, result, stream_span, event, pc,
          line, brk, late, yielded, error, atBreak, deps, active, ran, rejected,
          nruns, forkedFrom, spans, sendLog, engine, fanpc, searched, gathered,
          answers, prodFn, prodpc, prodH, prodSpan, chunksLeft, prodLog,
          jpc, num, page, search_l, searches, reads, result_l,
          collect, result_queue, ui, got>>

channelVars == <<chan, sent, nextSpan>>
targetVars == <<target, raised, result>>
driverVars == <<stream_span, event, pc, line, brk, late, yielded, error, atBreak>>
handleVars == <<deps, active, ran, rejected, nruns, forkedFrom>>
historyVars == <<spans, sendLog>>
fanVars == <<engine, fanpc, searched, gathered, answers>>
prodVars == <<prodFn, prodpc, prodH, prodSpan, chunksLeft, prodLog>>
jinaVars == <<jpc, num, page, search_l, searches, reads, result_l>>
uiVars == <<collect, result_queue, ui, got>>
pipeVars == <<fanVars, prodVars, jinaVars, uiVars>>

\* What the consumer receives: an (event, bool) pair or an EndResult.
Pair(e, tag) == [kind |-> "pair", event |-> e, tag |-> tag, res |-> NoResult]
EndResult(res) == [kind |-> "end", event |-> NoEvent, tag |-> FALSE, res |-> res]

\* ------------------------------------------------------- the loop body
\* Classify with the "break" after the yield of line 198 left out.
Classify_NoBreakAtResult(e, span) ==
    IF span # NoCtx /\ e.event_type = "task_output_delta"
                    /\ e.ctx.parent_id = span.span_id
    THEN [line |-> 183, tag |-> TRUE, stream_span |-> span, brk |-> e.stopped]
    ELSE IF e.ctx.parent_id # HandleCtx.span_id
    THEN [line |-> 189, tag |-> FALSE, stream_span |-> span, brk |-> FALSE]
    ELSE IF span = NoCtx /\ e.event_type = "task_output_stream" /\ e.is_result
    THEN [line |-> 195, tag |-> TRUE, stream_span |-> e.ctx, brk |-> FALSE]
    ELSE IF span = NoCtx /\ e.event_type = "task_output" /\ e.is_result
    THEN [line |-> 198, tag |-> TRUE, stream_span |-> span, brk |-> FALSE]
    ELSE [line |-> 200, tag |-> FALSE, stream_span |-> span, brk |-> FALSE]

\* Classify with "if event.stopped: break" of lines 184-185 left out.
Classify_NoBreakAtStopped(e, span) ==
    IF span # NoCtx /\ e.event_type = "task_output_delta"
                    /\ e.ctx.parent_id = span.span_id
    THEN [line |-> 183, tag |-> TRUE, stream_span |-> span, brk |-> FALSE]
    ELSE IF e.ctx.parent_id # HandleCtx.span_id
    THEN [line |-> 189, tag |-> FALSE, stream_span |-> span, brk |-> FALSE]
    ELSE IF span = NoCtx /\ e.event_type = "task_output_stream" /\ e.is_result
    THEN [line |-> 195, tag |-> TRUE, stream_span |-> e.ctx, brk |-> FALSE]
    ELSE IF span = NoCtx /\ e.event_type = "task_output" /\ e.is_result
    THEN [line |-> 198, tag |-> TRUE, stream_span |-> span, brk |-> TRUE]
    ELSE [line |-> 200, tag |-> FALSE, stream_span |-> span, brk |-> FALSE]

\* Classify with the parent_id test of lines 188-190 left out.
Classify_NoParentTest(e, span) ==
    IF span # NoCtx /\ e.event_type = "task_output_delta"
                    /\ e.ctx.parent_id = span.span_id
    THEN [line |-> 183, tag |-> TRUE, stream_span |-> span, brk |-> e.stopped]
    ELSE IF span = NoCtx /\ e.event_type = "task_output_stream" /\ e.is_result
    THEN [line |-> 195, tag |-> TRUE, stream_span |-> e.ctx, brk |-> FALSE]
    ELSE IF span = NoCtx /\ e.event_type = "task_output" /\ e.is_result
    THEN [line |-> 198, tag |-> TRUE, stream_span |-> span, brk |-> TRUE]
    ELSE [line |-> 200, tag |-> FALSE, stream_span |-> span, brk |-> FALSE]

\* Classify with stream_span forgotten when a foreign event is forwarded.
Classify_ForeignResets(e, span) ==
    IF span # NoCtx /\ e.event_type = "task_output_delta"
                    /\ e.ctx.parent_id = span.span_id
    THEN [line |-> 183, tag |-> TRUE, stream_span |-> span, brk |-> e.stopped]
    ELSE IF e.ctx.parent_id # HandleCtx.span_id
    THEN [line |-> 189, tag |-> FALSE, stream_span |-> NoCtx, brk |-> FALSE]
    ELSE IF span = NoCtx /\ e.event_type = "task_output_stream" /\ e.is_result
    THEN [line |-> 195, tag |-> TRUE, stream_span |-> e.ctx, brk |-> FALSE]
    ELSE IF span = NoCtx /\ e.event_type = "task_output" /\ e.is_result
    THEN [line |-> 198, tag |-> TRUE, stream_span |-> span, brk |-> TRUE]
    ELSE [line |-> 200, tag |-> FALSE, stream_span |-> span, brk |-> FALSE]

\* Classify with the is_result test of a TaskOutput made before the
\* parent_id test.
Classify_ResultBeforeParent(e, span) ==
    IF span # NoCtx /\ e.event_type = "task_output_delta"
                    /\ e.ctx.parent_id = span.span_id
    THEN [line |-> 183, tag |-> TRUE, stream_span |-> span, brk |-> e.stopped]
    ELSE IF span = NoCtx /\ e.event_type = "task_output" /\ e.is_result
    THEN [line |-> 198, tag |-> TRUE, stream_span |-> span, brk |-> TRUE]
    ELSE IF e.ctx.parent_id # HandleCtx.span_id
    THEN [line |-> 189, tag |-> FALSE, stream_span |-> span, brk |-> FALSE]
    ELSE IF span = NoCtx /\ e.event_type = "task_output_stream" /\ e.is_result
    THEN [line |-> 195, tag |-> TRUE, stream_span |-> e.ctx, brk |-> FALSE]
    ELSE [line |-> 200, tag |-> FALSE, stream_span |-> span, brk |-> FALSE]

\* Classify with the two result tests made whether or not a stream has
\* started.
Classify_ResultWhileStreaming(e, span) ==
    IF span # NoCtx /\ e.event_type = "task_output_delta"
                    /\ e.ctx.parent_id = span.span_id
    THEN [line |-> 183, tag |-> TRUE, stream_span |-> span, brk |-> e.stopped]
    ELSE IF e.ctx.parent_id # HandleCtx.span_id
    THEN [line |-> 189, tag |-> FALSE, stream_span |-> span, brk |-> FALSE]
    ELSE IF e.event_type = "task_output_stream" /\ e.is_result
    THEN [line |-> 195, tag |-> TRUE, stream_span |-> e.ctx, brk |-> FALSE]
    ELSE IF e.event_type = "task_output" /\ e.is_result
    THEN [line |-> 198, tag |-> TRUE, stream_span |-> span, brk |-> TRUE]
    ELSE [line |-> 200, tag |-> FALSE, stream_span |-> span, brk |-> FALSE]

\* Classify with no isinstance test in the test of a stream's member.
Classify_AnyKindInStream(e, span) ==
    IF span # NoCtx /\ e.ctx.parent_id = span.span_id
    THEN [line |-> 183, tag |-> TRUE, stream_span |-> span, brk |-> e.stopped]
    ELSE IF e.ctx.parent_id # HandleCtx.span_id
    THEN [line |-> 189, tag |-> FALSE, stream_span |-> span, brk |-> FALSE]
    ELSE IF span = NoCtx /\ e.event_type = "task_output_stream" /\ e.is_result
    THEN [line |-> 195, tag |-> TRUE, stream_span |-> e.ctx, brk |-> FALSE]
    ELSE IF span = NoCtx /\ e.event_type = "task_output" /\ e.is_result
    THEN [line |-> 198, tag |-> TRUE, stream_span |-> span, brk |-> TRUE]
    ELSE [line |-> 200, tag |-> FALSE, stream_span |-> span, brk |-> FALSE]

\* Classify with the stream test made without looking at is_result.
Classify_UnmarkedStarts(e, span) ==
    IF span # NoCtx /\ e.event_type = "task_output_delta"
                    /\ e.ctx.parent_id = span.span_id
    THEN [line |-> 183, tag |-> TRUE, stream_span |-> span, brk |-> e.stopped]
    ELSE IF e.ctx.parent_id # HandleCtx.span_id
    THEN [line |-> 189, tag |-> FALSE, stream_span |-> span, brk |-> FALSE]
    ELSE IF span = NoCtx /\ e.event_type = "task_output_stream"
    THEN [line |-> 195, tag |-> e.is_result, stream_span |-> e.ctx, brk |-> FALSE]
    ELSE IF span = NoCtx /\ e.event_type = "task_output" /\ e.is_result
    THEN [line |-> 198, tag |-> TRUE, stream_span |-> span, brk |-> TRUE]
    ELSE [line |-> 200, tag |-> FALSE, stream_span |-> span, brk |-> FALSE]

\* Classify with the stream test made whether or not a stream has started.
Classify_RestartsStream(e, span) ==
    IF span # NoCtx /\ e.event_type = "task_output_delta"
                    /\ e.ctx.parent_id = span.span_id
    THEN [line |-> 183, tag |-> TRUE, stream_span |-> span, brk |-> e.stopped]
    ELSE IF e.ctx.parent_id # HandleCtx.span_id
    THEN [line |-> 189, tag |-> FALSE, stream_span |-> span, brk |-> FALSE]
    ELSE IF e.event_type = "task_output_stream" /\ e.is_result
    THEN [line |-> 195, tag |-> TRUE, stream_span |-> e.ctx, brk |-> FALSE]
    ELSE IF span = NoCtx /\ e.event_type = "task_output" /\ e.is_result
    THEN [line |-> 198, tag |-> TRUE, stream_span |-> span, brk |-> TRUE]
    ELSE [line |-> 200, tag |-> FALSE, stream_span |-> span, brk |-> FALSE]

\* The body of "async for event in read_event()": the yield the event is
\* forwarded at (its source line), the tag, the stream_span after it, and
\* whether the loop breaks when the generator is resumed.
Classify(e, span) ==
    IF span # NoCtx /\ e.event_type = "task_output_delta"
                    /\ e.ctx.parent_id = span.span_id
    THEN [line |-> 183, tag |-> TRUE, stream_span |-> span, brk |-> e.stopped]
    ELSE IF e.ctx.parent_id # HandleCtx.span_id
    THEN [line |-> 189, tag |-> FALSE, stream_span |-> span, brk |-> FALSE]
    ELSE IF span = NoCtx /\ e.event_type = "task_output_stream" /\ e.is_result
    THEN [line |-> 195, tag |-> TRUE, stream_span |-> e.ctx, brk |-> FALSE]
    ELSE IF span = NoCtx /\ e.event_type = "task_output" /\ e.is_result
    THEN [line |-> 198, tag |-> TRUE, stream_span |-> span, brk |-> TRUE]
    ELSE [line |-> 200, tag |-> FALSE, stream_span |-> span, brk |-> FALSE]

YieldLines == {183, 189, 195, 198, 200}

\* ----------------------------------------------------------------- handles
\* EventDeps / BaseDeps: the same three fields in both classes.
Deps(parent, collector, consuming) ==
    [event_parent |-> parent, event_collector |-> collector,
     event_being_consuming |-> consuming]

\* -------------------------------------------------------------------- Init
Init ==
    /\ chan = << >>
    /\ sent = << >>
    /\ nextSpan = FirstFreshSpan
    /\ target = "unstarted"
    /\ raised = NoError
    /\ result = NoResult
    /\ stream_span = NoCtx
    /\ event = NoEvent
    /\ pc = "init"
    /\ line = 0
    /\ brk = FALSE
    /\ late = FALSE
    /\ yielded = << >>
    /\ error = NoError
    /\ atBreak = "none"
    /\ deps = << Deps(HandleCtx, 1, FALSE) >>
    /\ active = << 0 >>
    /\ ran = << FALSE >>
    /\ rejected = << FALSE >>
    /\ nruns = 0
    /\ forkedFrom = << 0 >>
    /\ spans = << [ctx |-> HandleCtx, origin |-> 0] >>
    /\ sendLog = << >>
    /\ engine = "none"
    /\ fanpc = "idle"
    /\ searched = << >>
    /\ gathered = << >>
    /\ answers = << >>
    /\ prodFn = "none"
    /\ prodpc = "idle"
    /\ prodH = 0
    /\ prodSpan = NoCtx
    /\ chunksLeft = << >>
    /\ prodLog = << >>
    /\ jpc = "idle"
    /\ num = 0
    /\ page = 1
    /\ search_l = << >>
    /\ searches = << >>
    /\ reads = << >>
    /\ result_l = << >>
    /\ collect = "idle"
    /\ result_queue = << >>
    /\ ui = "idle"
    /\ got = 0

\* ------------------------------------------------------------- the target
\* The target runs while the host task is suspended inside the generator,
\* and, were it still alive then, after the consumer has closed the generator
\* and gone back to the event loop.
TargetRuns == target = "running" /\ pc \in {"recv", "join", "closed"}

\* Span ids of the task_output_stream events sent so far as children of the
\* handle's span.  (A child of any other span is to the driver what a child of
\* ForkSpan is: its parent_id is neither the handle's nor the stream's.)
StreamSpans ==
    {sent[i].ctx.span_id :
        i \in {j \in DOMAIN sent : /\ sent[j].event_type = "task_output_stream"
                                   /\ sent[j].ctx.parent_id = HandleSpan}}

\* The contexts a producer passes or event_send stamps: a child of the
\* handle's span (ctx unset), a child of a forked handle's span, a child of a
\* stream's span (ctx = stream_span.spawn()).
ParentSpans == {HandleSpan, ForkSpan} \cup StreamSpans

\* Send on a stream made with the default max_buffer_size (0): the send
\* completes only by handing the item to a waiting receiver.
Send_ZeroBuffer(type, parent, is_result, stopped) ==
    /\ TargetRuns
    /\ pc = "recv"
    /\ chan = << >>
    /\ LET e == Event(type, Context(HandleTrace, nextSpan, parent), is_result, stopped)
       IN /\ chan' = Append(chan, e)
          /\ sent' = Append(sent, e)
    /\ nextSpan' = nextSpan + 1
    /\ UNCHANGED <<targetVars, driverVars, handleVars,
                   historyVars, pipeVars>>

\* DefaultEventCollector.send_event through event_send: ctx is a fresh child
\* of parent; the event is appended to the unbounded buffer.
Send(type, parent, is_result, stopped) ==
    /\ TargetRuns
    /\ LET e == Event(type, Context(HandleTrace, nextSpan, parent), is_result, stopped)
       IN /\ chan' = Append(chan, e)
          /\ sent' = Append(sent, e)
    /\ nextSpan' = nextSpan + 1
    /\ UNCHANGED <<targetVars, driverVars, handleVars,
                   historyVars, pipeVars>>

\* The events a target, or a sub-task it awaits, may send.
SendAny ==
    \E parent \in ParentSpans :
        \/ Send("task_start", parent, FALSE, FALSE)
        \/ \E r \in BOOLEAN : Send("task_output", parent, r, FALSE)
        \/ \E r \in BOOLEAN : Send("task_output_stream", parent, r, FALSE)
        \/ \E s \in BOOLEAN : Send("task_output_delta", parent, FALSE, s)

TargetSend ==
    /\ Len(sent) < MaxEvents
    /\ SendAny

\* "result = await target()": the target returns v.
TargetReturn ==
    /\ TargetRuns
    /\ \E v \in ReturnValues :
        /\ target' = "returned"
        /\ result' = v
    /\ UNCHANGED <<raised, channelVars, driverVars, handleVars,
                   historyVars, pipeVars>>

\* The target raises: the task group records the error and cancels its scope.
TargetRaise ==
    /\ TargetRuns
    /\ \E x \in Errors :
        /\ target' = "raised"
        /\ raised' = x
    /\ UNCHANGED <<result, channelVars, driverVars, handleVars,
                   historyVars, pipeVars>>

\* ------------------------------------------------------------- the driver
\* The consumer's first __anext__: the task group is entered, run_task is
\* scheduled and the generator awaits the first channel item.
Start ==
    /\ pc = "init"
    /\ pc' = "recv"
    /\ target' = "running"
    /\ UNCHANGED <<raised, result, channelVars, stream_span, event, line, brk, late,
                   yielded, error, atBreak, handleVars,
                   historyVars, pipeVars>>

\* Receive from a channel that hands out its newest item first.
Receive_NewestFirst ==
    /\ pc = "recv"
    /\ chan # << >>
    /\ target = "raised" => ~late
    /\ LET e == chan[Len(chan)]
           c == Classify(e, stream_span)
       IN /\ event' = e
          /\ stream_span' = c.stream_span
          /\ line' = c.line
          /\ brk' = c.brk
          /\ yielded' = Append(yielded, Pair(e, c.tag))
    /\ chan' = SubSeq(chan, 1, Len(chan) - 1)
    /\ late' = (target = "raised")
    /\ pc' = "yield"
    /\ UNCHANGED <<sent, nextSpan, targetVars, error, atBreak, handleVars,
                   historyVars, pipeVars>>

\* read_event delivers the head of the channel; the loop body forwards it.
\* Once the scope is cancelled only an item already handed to the waiting
\* receiver can still arrive.
Receive ==
    /\ pc = "recv"
    /\ chan # << >>
    /\ target = "raised" => ~late
    /\ LET e == Head(chan)
           c == Classify(e, stream_span)
       IN /\ event' = e
          /\ stream_span' = c.stream_span
          /\ line' = c.line
          /\ brk' = c.brk
          /\ yielded' = Append(yielded, Pair(e, c.tag))
    /\ chan' = Tail(chan)
    /\ late' = (target = "raised")
    /\ pc' = "yield"
    /\ UNCHANGED <<sent, nextSpan, targetVars, error, atBreak, handleVars,
                   historyVars, pipeVars>>

\* The consumer asks for the next item: the generator goes on after the
\* yield, with "break" or with "continue" (or the end of the loop body).
Resume ==
    /\ pc = "yield"
    /\ pc' = IF brk THEN "join" ELSE "recv"
    /\ atBreak' = IF brk THEN target ELSE atBreak
    /\ line' = 0
    /\ brk' = FALSE
    /\ UNCHANGED <<channelVars, targetVars, stream_span, event, late, yielded, error,
                   handleVars,
                   historyVars, pipeVars>>

\* YieldEndResult without the wait for run_task at the exit of the task group.
YieldEndResult_NoJoin ==
    /\ pc = "join"
    /\ target \in {"running", "returned"}
    /\ pc' = "end"
    /\ line' = 202
    /\ yielded' = Append(yielded, EndResult(result))
    /\ UNCHANGED <<channelVars, targetVars, stream_span, event, brk, late, error,
                   atBreak, handleVars,
                   historyVars, pipeVars>>

\* YieldEndResult with the listen loop ended by the return of the target.
YieldEndResult_OnReturn ==
    /\ pc \in {"recv", "join"}
    /\ target = "returned"
    /\ pc' = "end"
    /\ line' = 202
    /\ yielded' = Append(yielded, EndResult(result))
    /\ UNCHANGED <<channelVars, targetVars, stream_span, event, brk, late, error,
                   atBreak, handleVars,
                   historyVars, pipeVars>>

\* The task group has been left with the target returned: line 202.
YieldEndResult ==
    /\ pc = "join"
    /\ target = "returned"
    /\ pc' = "end"
    /\ line' = 202
    /\ yielded' = Append(yielded, EndResult(result))
    /\ UNCHANGED <<channelVars, targetVars, stream_span, event, brk, late, error,
                   atBreak, handleVars,
                   historyVars, pipeVars>>

\* RaiseError with the error swallowed: EndResult is yielded instead.
RaiseError_EndResult ==
    /\ pc \in {"recv", "join"}
    /\ target = "raised"
    /\ pc' = "end"
    /\ yielded' = Append(yielded, EndResult(result))
    /\ UNCHANGED <<channelVars, targetVars, stream_span, event, line, brk, late,
                   error, atBreak, handleVars,
                   historyVars, pipeVars>>

\* RaiseError with the receive left uncancelled: the error is found only at
\* the exit of the task group.
RaiseError_AtExitOnly ==
    /\ pc = "join"
    /\ target = "raised"
    /\ pc' = "raised"
    /\ error' = raised
    /\ UNCHANGED <<channelVars, targetVars, stream_span, event, line, brk, late,
                   yielded, atBreak, handleVars,
                   historyVars, pipeVars>>

\* The target raised: the receive is cancelled, or the exit of the task
\* group finds the error; "except*" re-raises it to the consumer.
RaiseError ==
    /\ pc \in {"recv", "join"}
    /\ target = "raised"
    /\ pc' = "raised"
    /\ error' = raised
    /\ UNCHANGED <<channelVars, targetVars, stream_span, event, line, brk, late,
                   yielded, atBreak, handleVars,
                   historyVars, pipeVars>>

\* Finish with the yield of EndResult inside the loop: the generator goes on
\* receiving.
Finish_LoopsOn ==
    /\ pc = "end"
    /\ pc' = "recv"
    /\ line' = 0
    /\ UNCHANGED <<channelVars, targetVars, stream_span, event, brk, late, yielded,
                   error, atBreak, handleVars,
                   historyVars, pipeVars>>

\* The consumer asks for an item after EndResult: the generator returns.
Finish ==
    /\ pc = "end"
    /\ pc' = "done"
    /\ line' = 0
    /\ UNCHANGED <<channelVars, targetVars, stream_span, event, brk, late, yielded,
                   error, atBreak, handleVars,
                   historyVars, pipeVars>>

\* Close with the target started outside any task group: closing the
\* generator leaves it running.
Close_NoCancel ==
    /\ pc \in {"init", "yield", "end"}
    /\ pc' = IF target = "raised" /\ pc = "yield" THEN "raised" ELSE "closed"
    /\ error' = IF target = "raised" /\ pc = "yield" THEN raised ELSE error
    /\ line' = 0
    /\ brk' = FALSE
    /\ UNCHANGED <<channelVars, targetVars, stream_span, event, late, yielded,
                   atBreak, handleVars,
                   historyVars, pipeVars>>

\* The consumer stops iterating (aclose): GeneratorExit is raised at the
\* yield; inside the task group this cancels the scope and the target.
Close ==
    /\ pc \in {"init", "yield", "end"}
    /\ target' = IF target = "running" THEN "cancelled" ELSE target
    /\ pc' = IF target = "raised" /\ pc = "yield" THEN "raised" ELSE "closed"
    /\ error' = IF target = "raised" /\ pc = "yield" THEN raised ELSE error
    /\ line' = 0
    /\ brk' = FALSE
    /\ UNCHANGED <<channelVars, raised, result, stream_span, event, late, yielded,
                   atBreak, handleVars,
                   historyVars, pipeVars>>

Next ==
    \/ TargetSend
    \/ TargetReturn
    \/ TargetRaise
    \/ Start
    \/ Receive
    \/ Resume
    \/ YieldEndResult
    \/ RaiseError
    \/ Finish
    \/ Close

Spec == Init /\ [][Next]_vars

\* The same run and target, under which the claims about events of other
\* handles among the handle's own are checked.
SpecInterleaved == Init /\ [][Next]_vars

TypeOK ==
    /\ pc \in {"init", "recv", "yield", "join", "end", "done", "raised", "closed"}
    /\ target \in {"unstarted", "running", "returned", "raised", "cancelled"}
    /\ line \in YieldLines \cup {0, 202}
    /\ Len(sent) <= MaxEvents
    /\ handleVars = << <<Deps(HandleCtx, 1, FALSE)>>, <<0>>, <<FALSE>>, <<FALSE>>, 0,
                       <<0>> >>
    /\ historyVars = << <<[ctx |-> HandleCtx, origin |-> 0]>>, << >> >>
    /\ result \in ReturnValues \cup {NoResult}
    /\ error \in Errors \cup {NoError}

\* ------------------------------------------------- the scripted stream
\* Deltas the scripted producer sends after its stream-start event.
MaxDeltas == 3

\* The producer of a streamed result: "stream_span = _event_parent.spawn()"
\* and TaskOutputStream{is_result=true} with that context first, then deltas
\* with ctx = stream_span.spawn().  The number of chunks and the place of
\* the stopped delta are the stream's.
StreamSend ==
    IF sent = << >>
    THEN /\ TargetRuns
         /\ LET e == Event("task_output_stream", ContextSpawn(HandleCtx, nextSpan),
                           TRUE, FALSE)
            IN /\ chan' = Append(chan, e)
               /\ sent' = Append(sent, e)
         /\ nextSpan' = nextSpan + 1
         /\ UNCHANGED <<targetVars, driverVars, handleVars,
                   historyVars, pipeVars>>
    ELSE /\ TargetRuns
         /\ Len(sent) < 1 + MaxDeltas
         /\ \E s \in BOOLEAN :
              LET e == Event("task_output_delta",
                             ContextSpawn(sent[1].ctx, nextSpan), FALSE, s)
              IN /\ chan' = Append(chan, e)
                 /\ sent' = Append(sent, e)
         /\ nextSpan' = nextSpan + 1
         /\ UNCHANGED <<targetVars, driverVars, handleVars,
                   historyVars, pipeVars>>

NextStream ==
    \/ StreamSend
    \/ TargetReturn
    \/ TargetRaise
    \/ Start
    \/ Receive
    \/ Resume
    \/ YieldEndResult
    \/ RaiseError
    \/ Finish
    \/ Close

SpecStream == Init /\ [][NextStream]_vars

\* ------------------------------------------------- reading the history
IsDirect(e) == e.ctx.parent_id = HandleSpan
IsResultOutput(e) == e.event_type = "task_output" /\ e.is_result
IsResultStream(e) == e.event_type = "task_output_stream" /\ e.is_result
IsDelta(e) == e.event_type = "task_output_delta"

Forwarded == {i \in DOMAIN yielded : yielded[i].kind = "pair"}
Ends == {i \in DOMAIN yielded : yielded[i].kind = "end"}

\* The result streams (direct children marked is_result) forwarded before
\* the i-th item, and the span of the first of them: the stream a run is in
\* when it receives its i-th item.
StartsBefore(i) ==
    {j \in Forwarded : j < i /\ IsDirect(yielded[j].event) /\ IsResultStream(yielded[j].event)}
StreamBefore(i) ==
    LET starts == StartsBefore(i)
    IN IF starts = {} THEN NoCtx
       ELSE yielded[CHOOSE j \in starts : \A k \in starts : j <= k].event.ctx

\* The listen loop has been left.
LoopEnded == pc \in {"join", "end", "done"} \/ atBreak # "none"

\* ------------------------------------------------------------------ claims
\* C1: while no result stream has started, a child of the handle's span that
\* is not a result marker is forwarded tagged false, and a TaskOutput with
\* is_result that is a child of the handle's span is forwarded tagged true
\* and is the last event forwarded: only EndResult follows it and the loop
\* does not receive again.
C1_AtomicResult ==
    \A i \in Forwarded :
        LET e == yielded[i].event
        IN (IsDirect(e) /\ StreamBefore(i) = NoCtx) =>
              IF IsResultOutput(e)
              THEN /\ yielded[i].tag
                   /\ \A j \in DOMAIN yielded : j > i => yielded[j].kind = "end"
                   /\ pc # "recv"
              ELSE IsResultStream(e) \/ ~yielded[i].tag

\* The example of C1: (e1, false), (e2, true), EndResult.
C1_Witness ==
    /\ Len(yielded) = 3
    /\ Len(sent) = 2
    /\ yielded[1] = Pair(sent[1], FALSE)
    /\ IsDirect(sent[1]) /\ sent[1].event_type = "task_output" /\ ~sent[1].is_result
    /\ yielded[2] = Pair(sent[2], TRUE)
    /\ IsDirect(sent[2]) /\ IsResultOutput(sent[2])
    /\ yielded[3].kind = "end"

\* The producer sent a result stream start as a child of the handle's span
\* and, after it, only deltas parented at that stream's span.
StreamScript ==
    /\ sent # << >>
    /\ IsDirect(sent[1]) /\ IsResultStream(sent[1])
    /\ \A i \in 2..Len(sent) :
          IsDelta(sent[i]) /\ sent[i].ctx.parent_id = sent[1].ctx.span_id

\* The stopped deltas sent, by position.
Stops == {i \in DOMAIN sent : IsDelta(sent[i]) /\ sent[i].stopped}

\* C2: for such a producer every forwarded event is tagged true, the events
\* forwarded are the events sent up to and including the first stopped delta,
\* the loop is left exactly when that delta has been forwarded, and EndResult
\* follows it with nothing more taken from the channel.
C2_StreamTermination ==
    StreamScript =>
        /\ \A i \in Forwarded :
              /\ yielded[i] = Pair(sent[i], TRUE)
              /\ \A k \in Stops : i <= k
        /\ pc \in {"join", "end", "done"} =>
              /\ Cardinality(Forwarded) \in Stops
              /\ Len(chan) = Len(sent) - Cardinality(Forwarded)
        /\ pc = "recv" => Stops \cap Forwarded = {}
        /\ \A i \in Ends : i = Cardinality(Forwarded) + 1

\* The example of C2: three deltas false, false, true give four forwarded
\* events, all tagged true, then EndResult, with the channel empty.
C2_Witness ==
    /\ StreamScript
    /\ Len(sent) = 4
    /\ ~sent[2].stopped /\ ~sent[3].stopped /\ sent[4].stopped
    /\ Len(yielded) = 5
    /\ \A i \in 1..4 : yielded[i] = Pair(sent[i], TRUE)
    /\ yielded[5].kind = "end"
    /\ chan = << >>

\* An event foreign to a run whose stream span is span.
IsForeign(e, span) ==
    /\ e.ctx.parent_id # HandleSpan
    /\ span = NoCtx \/ e.ctx.parent_id # span.span_id

\* C3: an event whose parent_id is neither the handle's span nor the span of
\* the started result stream is forwarded tagged false, leaves the stream span
\* as it was, and the loop goes on receiving after it, whatever its kind and
\* flags.
C3_ForeignPassthrough ==
    \A i \in Forwarded :
        LET before == StreamBefore(i)
        IN IsForeign(yielded[i].event, before) =>
              /\ ~yielded[i].tag
              /\ StreamBefore(i + 1) = before
              /\ i = Len(yielded) =>
                    /\ stream_span = before
                    /\ pc \in {"yield", "recv", "raised", "closed"}
                    /\ atBreak = "none"

\* A foreign TaskOutput with is_result, and a foreign stopped delta received
\* after a result stream has started, have been forwarded and the loop is
\* receiving again.
C3_Witness ==
    /\ pc = "recv"
    /\ Len(yielded) = 3
    /\ stream_span # NoCtx
    /\ IsForeign(yielded[2].event, stream_span) /\ IsForeign(yielded[3].event, stream_span)
    /\ IsResultOutput(yielded[2].event)
    /\ IsDelta(yielded[3].event) /\ yielded[3].event.stopped

\* C4: a run that ended without error gave the consumer exactly one
\* EndResult, as its last item; an EndResult is never followed by another
\* item, and what travels through the channel is events only.
C4_OneEndResultLast ==
    /\ \A i \in Ends : i = Len(yielded)
    /\ pc = "done" => Cardinality(Ends) = 1
    /\ pc \in {"end", "done"} => Ends # {}
    /\ Ends # {} => pc \in {"end", "done", "closed"}
    /\ \A i \in DOMAIN sent : sent[i].event_type \in EventTypes
    /\ \A i \in Forwarded : yielded[i].event.event_type \in EventTypes

C4_Witness ==
    /\ pc = "done"
    /\ Len(yielded) = 3
    /\ yielded[3].kind = "end"
    /\ chan # << >>

\* C5: an EndResult is yielded only once the target has returned, and its
\* res is the value the target returned, not the placeholder.
C5_EndResultAfterReturn ==
    \A i \in Ends :
        /\ target = "returned"
        /\ yielded[i].res = result
        /\ yielded[i].res \in ReturnValues

\* The loop was left while the target was still running, and EndResult
\* carries the value it returned afterwards.
C5_Witness ==
    /\ atBreak = "running"
    /\ Ends # {}
    /\ yielded[Len(yielded)] = EndResult("r1")

\* --------------------------------------------------------------- fairness
\* The event loop runs a task that can run: the cancellation is delivered
\* and the exit of the task group completes.  The consumer goes on iterating
\* (or closes the sequence).
MaxFairEvents == 2

TargetSendFair ==
    /\ Len(sent) < MaxFairEvents
    /\ SendAny

NextFair ==
    \/ TargetSendFair
    \/ TargetReturn
    \/ TargetRaise
    \/ Start
    \/ Receive
    \/ Resume
    \/ YieldEndResult
    \/ RaiseError
    \/ Finish
    \/ Close

FairSpec ==
    /\ Init /\ [][NextFair]_vars
    /\ WF_vars(RaiseError)
    /\ WF_vars(YieldEndResult)
    /\ WF_vars(Resume \/ Close)

\* C6: once the target has raised, no EndResult is or was yielded, every
\* forwarded item is an event the target sent (none stands for the error),
\* the run can only end by raising, and it raises the target's error.
C6_TargetErrorRaised ==
    /\ [](target = "raised" =>
            /\ Ends = {}
            /\ \A i \in Forwarded : yielded[i].event = sent[i]
            /\ pc \in {"recv", "yield", "join", "raised"}
            /\ error \in {NoError, raised}
            /\ pc = "raised" => error = raised)
    /\ (target = "raised") ~> (pc = "raised" /\ error = raised)

\* The target raised after its result event had been forwarded, and the
\* consumer has the error and no EndResult.
C6_Witness ==
    /\ pc = "raised"
    /\ error = "ValueError"
    /\ atBreak = "running"
    /\ Len(yielded) = 2
    /\ yielded[2].tag

\* C7: when the target raises while the loop waits for the next item, the
\* wait is cancelled and the consumer gets the error, also when no result
\* event was ever sent.
C7_ErrorEndsTheWait ==
    (pc = "recv" /\ target = "raised") ~> (pc = "raised" /\ error = raised)

\* The loop was waiting on an empty channel, no result marker was ever sent,
\* and the consumer has the error.
C7_Witness ==
    /\ pc = "raised"
    /\ error = "ValueError"
    /\ atBreak = "none"
    /\ chan = << >>
    /\ sent # << >>
    /\ \A i \in DOMAIN sent : ~sent[i].is_result /\ ~sent[i].stopped

\* ------------------------------------------------- handles and their runs
\* Handles created, and runs started, in one behaviour.
MaxHandles == 3
MaxRuns == 3

runVars == <<chan, sent, target, raised, result, driverVars>>

Handles == DOMAIN deps

\* Forked with a collector of its own (the default factory) in the copy.
Forked_OwnChannel(d, fresh) ==
    [d EXCEPT !.event_parent = ContextSpawn(d.event_parent, fresh),
              !.event_collector = fresh]

\* copy(deps) with _event_parent rebound to a fresh child span: every other
\* field of the copy, _event_being_consuming included, has the value it has
\* in the original.
Forked(d, fresh) ==
    [d EXCEPT !.event_parent = ContextSpawn(d.event_parent, fresh)]

AddHandle(h, d) ==
    /\ Len(deps) < MaxHandles
    /\ deps' = Append(deps, d)
    /\ forkedFrom' = Append(forkedFrom, h)
    /\ active' = Append(active, 0)
    /\ ran' = Append(ran, FALSE)
    /\ rejected' = Append(rejected, FALSE)
    /\ nextSpan' = nextSpan + 1
    /\ UNCHANGED <<nruns, runVars, historyVars, pipeVars>>

\* fork_deps(deps) of the adapter.
ForkDeps ==
    \E h \in Handles : AddHandle(h, Forked(deps[h], nextSpan))

\* EventDeps.spawn().
Spawn ==
    \E h \in Handles : AddHandle(h, Forked(deps[h], nextSpan))

\* A run on handle h becomes active.
Activate(h) ==
    /\ nruns < MaxRuns
    /\ nruns' = nruns + 1
    /\ active' = [active EXCEPT ![h] = @ + 1]
    /\ ran' = [ran EXCEPT ![h] = TRUE]

\* The first iteration of EventDeps.run: the task group is entered and the
\* channel is read; _event_being_consuming is neither tested nor set.
EventDepsRun ==
    \E h \in Handles :
        /\ Activate(h)
        /\ UNCHANGED <<deps, rejected, forkedFrom, nextSpan, runVars, historyVars, pipeVars>>

\* The guard of agent_run and agent_run_stream: RuntimeError when the flag is
\* set, else the flag is set and the run starts.
GuardedStart(h) ==
    IF deps[h].event_being_consuming
    THEN /\ rejected' = [rejected EXCEPT ![h] = TRUE]
         /\ UNCHANGED <<deps, active, ran, nruns, forkedFrom, nextSpan, runVars,
                        historyVars, pipeVars>>
    ELSE /\ Activate(h)
         /\ deps' = [deps EXCEPT ![h].event_being_consuming = TRUE]
         /\ UNCHANGED <<rejected, forkedFrom, nextSpan, runVars, historyVars, pipeVars>>

\* The first iteration of agent_run.
AgentRun == \E h \in Handles : GuardedStart(h)

\* The first iteration of agent_run_stream.
AgentRunStream == \E h \in Handles : GuardedStart(h)

\* A run on h ends: EndResult was yielded and the generator returned, the
\* error was raised, or the consumer closed it.  No statement of either
\* module assigns False to _event_being_consuming.
RunEnds ==
    \E h \in Handles :
        /\ active[h] > 0
        /\ active' = [active EXCEPT ![h] = @ - 1]
        /\ UNCHANGED <<deps, ran, rejected, nruns, forkedFrom, nextSpan, runVars,
                       historyVars, pipeVars>>

NextHandles ==
    \/ ForkDeps
    \/ Spawn
    \/ EventDepsRun
    \/ AgentRun
    \/ AgentRunStream
    \/ RunEnds

SpecHandles == Init /\ [][NextHandles]_vars

\* C8: a run started on a handle while another run on it is active fails
\* with the re-entrancy error: no handle ever has two active runs.
C8_NoSecondRun ==
    \A h \in Handles : active[h] <= 1

\* C9: the guard is per handle: a run on a forked handle is not refused
\* because of the run of the handle it was forked from, so the re-entrancy
\* error is raised only on a handle a run was started on.
C9_ForkStartsItsOwnRun ==
    \A h \in Handles : rejected[h] => ran[h]

\* C10: the flag of a handle is true exactly while a run on it is active.
C10_FlagWhileRunning ==
    \A h \in Handles : deps[h].event_being_consuming <=> active[h] > 0

\* ------------------------------------------------- sending through handles
\* Calls of event_send in one behaviour of the sending scenario.
MaxSends == 2

\* Stamp with the ctx of the event overwritten whether set or not.
Stamp_Always(given, parent, fresh) == ContextSpawn(parent, fresh)

\* "event.ctx = event.ctx or self._event_parent.spawn()": a Context is
\* always true, None is false.
Stamp(given, parent, fresh) ==
    IF given # NoCtx THEN given ELSE ContextSpawn(parent, fresh)

\* The ctx of an event handed to event_send of handle h: unset, the handle's
\* own context (the root event of a producer), or a context the caller has
\* spawned from it (the span of a stream).
GivenCtxs(h) ==
    {NoCtx, deps[h].event_parent, ContextSpawn(deps[h].event_parent, nextSpan)}

\* send_event on collector c: chan is the buffer of the first handle's
\* collector; an event sent on another collector never shows up in it.
Deliver(c, e) ==
    IF c = deps[1].event_collector
    THEN /\ chan' = Append(chan, e)
         /\ sent' = Append(sent, e)
    ELSE UNCHANGED <<chan, sent>>

\* event_send(event) on one of the handles.
EventSend ==
    /\ Len(sendLog) < MaxSends
    /\ \E h \in Handles : \E given \in GivenCtxs(h) :
         LET e == Event("task_output",
                        Stamp(given, deps[h].event_parent, nextSpan), FALSE, FALSE)
         IN /\ Deliver(deps[h].event_collector, e)
            /\ sendLog' = Append(sendLog, [handle |-> h, ctx |-> given, event |-> e])
            /\ nextSpan' = IF given = deps[h].event_parent THEN nextSpan
                                                           ELSE nextSpan + 1
    /\ UNCHANGED <<targetVars, driverVars, handleVars, spans, pipeVars>>

NextSends ==
    \/ ForkDeps
    \/ Spawn
    \/ EventSend

SpecSends == Init /\ [][NextSends]_vars

\* ------------------------------------------------------- claims C11 to C20
\* C11: when the consumer closes the run before EndResult the task group is
\* cancelled: the target is not left running, and from then on nothing is
\* sent to the channel.
C11_CloseCancelsTarget ==
    /\ [](pc = "closed" => target # "running")
    /\ [][pc = "closed" => (sent' = sent /\ chan' = chan /\ target' = target)]_vars

\* A run closed at a yield of the loop while its target was running.
C11_Witness ==
    /\ pc = "closed"
    /\ target = "cancelled"
    /\ Forwarded # {}
    /\ Ends = {}

\* The events forwarded so far, in the order the consumer received them.
ForwardedEvents ==
    LET pairs == SelectSeq(yielded, LAMBDA y : y.kind = "pair")
    IN [i \in DOMAIN pairs |-> pairs[i].event]

\* C12: the events a run has forwarded are, in order, a prefix of the events
\* sent to the channel, and the rest of the sent events is what the channel
\* still holds: nothing is forwarded twice, skipped or reordered.
C12_ForwardedIsPrefix ==
    LET forwarded == ForwardedEvents
    IN /\ Len(forwarded) <= Len(sent)
       /\ \A i \in DOMAIN forwarded : forwarded[i] = sent[i]
       /\ sent = forwarded \o chan

\* Two events of different producers forwarded, a third one still queued.
C12_Witness ==
    /\ Len(ForwardedEvents) >= 2
    /\ ForwardedEvents[1].ctx.parent_id # ForwardedEvents[2].ctx.parent_id
    /\ chan # << >>

\* C13: every event sent while the target was executing has been forwarded
\* when EndResult is yielded, the events sent after the terminating result
\* event included.
C13_AllSentForwarded ==
    Ends # {} => ForwardedEvents = sent

\* ------------------------------------------------------- the span tree
\* Contexts in one behaviour of the span scenario, the root included.
MaxSpans == 6

\* c.spawn() on one of the contexts made so far; c itself is not assigned.
SpawnContext ==
    /\ Len(spans) < MaxSpans
    /\ \E i \in DOMAIN spans :
         spans' = Append(spans, [ctx |-> ContextSpawn(spans[i].ctx, nextSpan),
                                 origin |-> i])
    /\ nextSpan' = nextSpan + 1
    /\ UNCHANGED <<chan, sent, targetVars, driverVars, handleVars, sendLog,
                   pipeVars>>

NextSpans == SpawnContext

SpecSpans == Init /\ [][NextSpans]_vars

\* The contexts whose span_id is the parent_id of spans[i].
ParentsOf(i) ==
    {j \in DOMAIN spans : spans[j].ctx.span_id = spans[i].ctx.parent_id}

\* Following parent_id from spans[i] reaches the root in at most n steps.
RECURSIVE ReachesRoot(_, _)
ReachesRoot(i, n) ==
    \/ i = 1
    \/ /\ n > 0
       /\ \E j \in ParentsOf(i) : ReachesRoot(j, n - 1)

\* C14: after any sequence of spawn() calls from one root, every context has
\* the root's trace_id, the root has no parent, every other context's
\* parent_id is the span_id of exactly one context, made before it, and
\* following parent_id leads to the root (no cycle).
C14_SpanTree ==
    /\ spans[1].ctx.parent_id = None
    /\ \A i \in DOMAIN spans : spans[i].ctx.trace_id = spans[1].ctx.trace_id
    /\ \A i \in DOMAIN spans \ {1} :
         /\ Cardinality(ParentsOf(i)) = 1
         /\ \A j \in ParentsOf(i) : j < i
         /\ ReachesRoot(i, Len(spans))

\* A tree with a branch and a chain of three spawns below the root.
C14_Witness ==
    /\ Len(spans) >= 5
    /\ \E i, j, k, l \in DOMAIN spans :
         /\ spans[i].origin = 1
         /\ spans[j].origin = i
         /\ spans[k].origin = j
         /\ spans[l].origin = i /\ l # j

\* C15: two spawn() calls on one context give contexts with different
\* span_ids, the trace_id of that context and parent_id = its span_id, and
\* no call changes a context made before.
C15_SpawnTwice ==
    /\ [](\A i, j \in DOMAIN spans :
            (i # j /\ spans[i].origin # 0 /\ spans[i].origin = spans[j].origin) =>
                LET c == spans[spans[i].origin].ctx
                IN /\ spans[i].ctx.span_id # spans[j].ctx.span_id
                   /\ spans[i].ctx.trace_id = c.trace_id
                   /\ spans[j].ctx.trace_id = c.trace_id
                   /\ spans[i].ctx.parent_id = c.span_id
                   /\ spans[j].ctx.parent_id = c.span_id)
    /\ [][\A i \in DOMAIN spans : spans'[i] = spans[i]]_vars

\* A context that is not the root was spawned from twice.
C15_Witness ==
    \E i, j \in DOMAIN spans :
        /\ i # j
        /\ spans[i].origin > 1
        /\ spans[i].origin = spans[j].origin

\* C16: event_send gives an event without ctx a fresh child of the handle's
\* span (parent_id = the handle's span_id, the handle's trace_id), leaves a
\* ctx the caller set as it is, and so every event on the channel has a ctx.
C16_EventSendStamps ==
    /\ \A i \in DOMAIN sendLog :
         LET call == sendLog[i]
             p == deps[call.handle].event_parent
         IN /\ call.event.ctx # NoCtx
            /\ call.ctx # NoCtx => call.event.ctx = call.ctx
            /\ call.ctx = NoCtx =>
                 /\ call.event.ctx.parent_id = p.span_id
                 /\ call.event.ctx.trace_id = p.trace_id
                 /\ \A h \in Handles : deps[h].event_parent # call.event.ctx
                 /\ \A j \in DOMAIN sendLog \ {i} :
                        sendLog[j].event.ctx # call.event.ctx
    /\ \A i \in DOMAIN sent : sent[i].ctx # NoCtx

\* One event sent without ctx and one with the ctx set by the caller,
\* through a spawned handle.
C16_Witness ==
    \E i, j \in DOMAIN sendLog :
        /\ sendLog[i].ctx = NoCtx
        /\ sendLog[j].ctx # NoCtx
        /\ sendLog[i].handle > 1

\* C17: a spawned handle has the collector of the handle it was spawned from
\* and a fresh child of that handle's span; spawning changes no existing
\* handle; the events sent through any of the handles are the events of the
\* one channel, in the order sent.
C17_ForkSharesChannel ==
    /\ [](/\ \A h \in Handles :
               forkedFrom[h] # 0 =>
                   LET o == deps[forkedFrom[h]]
                   IN /\ deps[h].event_collector = o.event_collector
                      /\ deps[h].event_parent.parent_id = o.event_parent.span_id
                      /\ deps[h].event_parent.trace_id = o.event_parent.trace_id
                      /\ \A k \in Handles \ {h} :
                             deps[k].event_parent.span_id # deps[h].event_parent.span_id
           /\ sent = [i \in DOMAIN sendLog |-> sendLog[i].event])
    /\ [][\A h \in DOMAIN deps :
             /\ deps'[h].event_parent = deps[h].event_parent
             /\ deps'[h].event_collector = deps[h].event_collector]_vars

\* An event sent through a spawned handle after one sent through the handle
\* it was spawned from: both are in the channel.
C17_Witness ==
    /\ Len(sent) = 2
    /\ sendLog[1].handle = 1
    /\ forkedFrom[sendLog[2].handle] = 1

SentTerminator ==
    \/ \E i \in DOMAIN sent : IsDirect(sent[i]) /\ IsResultOutput(sent[i])
    \/ \E i, j \in DOMAIN sent :
          /\ i < j
          /\ IsDirect(sent[i]) /\ IsResultStream(sent[i])
          /\ IsDelta(sent[j]) /\ sent[j].stopped
          /\ sent[j].ctx.parent_id = sent[i].ctx.span_id

\* C19: when the target has returned without having sent a terminating
\* result, the listen loop is not left and EndResult is not yielded; once
\* the channel is empty the run is suspended on it and nothing can happen.
C19_NoTerminatorNoEnd ==
    (target = "returned" /\ ~SentTerminator) =>
        /\ Ends = {}
        /\ pc \in {"recv", "yield", "closed"}
        /\ error = NoError
        /\ (pc = "recv" /\ chan = << >>) => ~ENABLED Next

\* The target has returned after events without a terminator, all of them
\* forwarded: the run waits on the empty channel.
C19_Witness ==
    /\ target = "returned"
    /\ ~SentTerminator
    /\ pc = "recv"
    /\ chan = << >>
    /\ Len(yielded) >= 2

\* The handle's own events: its direct children and the deltas of its
\* direct-child result streams.
IsOwn(e) ==
    \/ IsDirect(e)
    \/ /\ IsDelta(e)
       /\ \E i \in DOMAIN sent : /\ IsDirect(sent[i]) /\ IsResultStream(sent[i])
                                  /\ e.ctx.parent_id = sent[i].ctx.span_id

\* The loop body applied to a sequence of events from stream_span = span:
\* the tag of each and whether the loop breaks at it, up to the break.
RECURSIVE RunTags(_, _)
RunTags(seq, span) ==
    IF seq = << >> THEN << >>
    ELSE LET c == Classify(Head(seq), span)
         IN <<[tag |-> c.tag, brk |-> c.brk]>> \o
            (IF c.brk THEN << >> ELSE RunTags(Tail(seq), c.stream_span))

\* The forwarded pairs of the handle's own events.
OwnPairs ==
    SelectSeq(SelectSeq(yielded, LAMBDA y : y.kind = "pair"),
              LAMBDA y : IsOwn(y.event))

\* C20: the tag of each of the handle's own events, and the event the loop
\* terminates at, are those the loop body gives the own events taken alone
\* (no foreign event between them), for every way foreign events are
\* interleaved with them.
C20_InterleavingIndependent ==
    LET own == OwnPairs
        alone == RunTags([i \in DOMAIN own |-> own[i].event], NoCtx)
        ended == own # << >> /\ alone[Len(alone)].brk
    IN /\ Len(alone) = Len(own)
       /\ \A i \in DOMAIN own : own[i].tag = alone[i].tag
       /\ ended => /\ pc # "recv"
                    /\ yielded[Cardinality(Forwarded)] = own[Len(own)]
       /\ pc \in {"join", "end", "done"} => ended

\* A foreign event forwarded between the start of the result stream and a
\* delta of it.
C20_Witness ==
    /\ Len(yielded) >= 3
    /\ IsDirect(yielded[1].event) /\ IsResultStream(yielded[1].event)
    /\ ~IsOwn(yielded[2].event)
    /\ yielded[3].kind = "pair"
    /\ IsDelta(yielded[3].event)
    /\ yielded[3].event.ctx.parent_id = yielded[1].event.ctx.span_id
    /\ yielded[3].tag

\* ---------------------------------------------------- fan-out and filter
\* Sub-tasks of one fan-out.
MaxSources == 5

coreVars == <<channelVars, targetVars, driverVars, handleVars, historyVars>>

\* publishedTime of source i when it is set (None when it is not).
PublishedTime(i) == 100 + i

\* What gather holds for sub-task i: the answer it returned, or the
\* Exception it raised.
Returned(i) == [done |-> TRUE, ok |-> TRUE, val |-> i]
Raised(i) == [done |-> TRUE, ok |-> FALSE, val |-> i]
\* The sub-task has not ended yet.
Pending == [done |-> FALSE, ok |-> FALSE, val |-> 0]

\* PardoEngine.summary_qa, lines 140-142: one _single_qa per searched source.
SummaryQaFanOut ==
    /\ fanpc = "idle"
    /\ \E n \in 0..MaxSources :
         /\ \E times \in [1..n -> BOOLEAN] :
              searched' = [i \in 1..n |-> IF times[i] THEN PublishedTime(i) ELSE None]
         /\ gathered' = [i \in 1..n |-> Pending]
    /\ engine' = "pardo"
    /\ fanpc' = "gather"
    /\ UNCHANGED <<answers, coreVars, prodVars, jinaVars, uiVars>>

\* VillVEngine.normal_query, lines 102-117: one summary_qa (or normal_query)
\* per subquery when there is more than one.
NormalQueryFanOut ==
    /\ fanpc = "idle"
    /\ \E n \in 2..MaxSources :
         /\ searched' = [i \in 1..n |-> None]
         /\ gathered' = [i \in 1..n |-> Pending]
    /\ engine' = "villv"
    /\ fanpc' = "gather"
    /\ UNCHANGED <<answers, coreVars, prodVars, jinaVars, uiVars>>

\* A sub-task returns its answer; the sub-tasks end in any order.
SubTaskReturns ==
    /\ fanpc = "gather"
    /\ \E i \in DOMAIN gathered :
         /\ gathered[i] = Pending
         /\ gathered' = [gathered EXCEPT ![i] = Returned(i)]
    /\ UNCHANGED <<engine, fanpc, searched, answers, coreVars, prodVars, jinaVars, uiVars>>

\* A sub-task raises: gather keeps the Exception in its place.
SubTaskRaises ==
    /\ fanpc = "gather"
    /\ \E i \in DOMAIN gathered :
         /\ gathered[i] = Pending
         /\ gathered' = [gathered EXCEPT ![i] = Raised(i)]
    /\ UNCHANGED <<engine, fanpc, searched, answers, coreVars, prodVars, jinaVars, uiVars>>

\* PardoAnswers with the index taken after the filter: the k-th kept answer
\* gets the published time of the k-th source.
PardoAnswers_IndexAfterFilter(g, srcs, idx) ==
    LET kept == SelectSeq(g, LAMBDA x : x.ok)
    IN [k \in DOMAIN kept |-> [published |-> srcs[k], answer |-> kept[k].val]]

\* The comprehension of lines 143-152 from index idx on: enumerate(answers)
\* filtered by "not isinstance(x, Exception)", each kept answer prefixed
\* with searched[idx].publishedTime when that is set.
RECURSIVE PardoAnswers(_, _, _)
PardoAnswers(g, srcs, idx) ==
    IF idx > Len(g) THEN << >>
    ELSE (IF g[idx].ok THEN << [published |-> srcs[idx], answer |-> g[idx].val] >>
                       ELSE << >>)
         \o PardoAnswers(g, srcs, idx + 1)

\* villv.py line 118: [x for x in answers if not isinstance(x, Exception)].
VillvAnswers(g) ==
    LET kept == SelectSeq(g, LAMBDA x : x.ok)
    IN [k \in DOMAIN kept |-> kept[k].val]

AllGathered == \A i \in DOMAIN gathered : gathered[i].done

\* summary_qa after gather: the filter, then the summarization call of
\* lines 154-169, whatever the number of answers left.
SummaryQaAggregate ==
    /\ fanpc = "gather"
    /\ engine = "pardo"
    /\ AllGathered
    /\ answers' = PardoAnswers(gathered, searched, 1)
    /\ fanpc' = "summarize"
    /\ UNCHANGED <<engine, searched, gathered, coreVars, prodVars, jinaVars, uiVars>>

\* normal_query after gather: the filter, then the single answer is
\* returned or context_qa is called with the answers left (lines 118-122).
NormalQueryAggregate ==
    /\ fanpc = "gather"
    /\ engine = "villv"
    /\ AllGathered
    /\ answers' = VillvAnswers(gathered)
    /\ fanpc' = IF Len(VillvAnswers(gathered)) = 1 THEN "returned" ELSE "context_qa"
    /\ UNCHANGED <<engine, searched, gathered, coreVars, prodVars, jinaVars, uiVars>>

NextFanOut ==
    \/ SummaryQaFanOut
    \/ NormalQueryFanOut
    \/ SubTaskReturns
    \/ SubTaskRaises
    \/ SummaryQaAggregate
    \/ NormalQueryAggregate

SpecFanOut == Init /\ [][NextFanOut]_vars

\* ------------------------------------------------------- claims C21 to C30
\* The target first had a sub-operation on the spawned handle send its
\* result (a child of ForkSpan), then sent its own result through the root
\* handle.
SubThenFinal ==
    /\ Len(sent) >= 2
    /\ sent[1].ctx.parent_id = ForkSpan /\ IsResultOutput(sent[1])
    /\ IsDirect(sent[2]) /\ IsResultOutput(sent[2])

\* s is an initial part of t.
IsPrefix(s, t) ==
    /\ Len(s) <= Len(t)
    /\ \A i \in DOMAIN s : s[i] = t[i]

\* C21: in that scenario the consumer receives (sub-operation output,
\* false), (final output, true), EndResult(the target's return value), in
\* that order and nothing else.
C21_SubThenFinalSequence ==
    SubThenFinal =>
        LET upToBreak == << Pair(sent[1], FALSE), Pair(sent[2], TRUE) >>
        IN /\ IsPrefix(yielded, upToBreak) \/ yielded = Append(upToBreak, EndResult(result))
           /\ pc \in {"end", "done"} =>
                 /\ yielded = Append(upToBreak, EndResult(result))
                 /\ result \in ReturnValues

\* The scenario run to its end.
C21_Witness ==
    /\ SubThenFinal
    /\ Len(sent) = 2
    /\ pc = "done"
    /\ Len(yielded) = 3

\* The sub-tasks that succeeded, and the k-th of them in input order.
Succeeded == {i \in DOMAIN gathered : gathered[i].done /\ gathered[i].ok}
KthSucceeded(k) ==
    CHOOSE i \in Succeeded : Cardinality({j \in Succeeded : j < i}) = k - 1

Aggregated == fanpc \in {"summarize", "context_qa", "returned"}

\* C22: the aggregation keeps exactly the outputs of the sub-tasks that
\* succeeded, in the order of their inputs whatever the order they ended in,
\* and summary_qa pairs each kept answer with the published time of its own
\* source.
C22_FilterKeepsSucceeded ==
    Aggregated =>
        /\ Len(answers) = Cardinality(Succeeded)
        /\ \A k \in DOMAIN answers :
              IF engine = "pardo"
              THEN answers[k] = [published |-> searched[KthSucceeded(k)],
                                 answer |-> KthSucceeded(k)]
              ELSE answers[k] = KthSucceeded(k)

\* Five sources with their published times set, the second and the fourth
\* sub-task raised: the first, third and fifth answers are kept.
C22_Witness ==
    /\ engine = "pardo"
    /\ fanpc = "summarize"
    /\ Len(gathered) = 5
    /\ Succeeded = {1, 3, 5}
    /\ \A i \in DOMAIN searched : searched[i] # None
    /\ Len(answers) = 3

\* C23: when every sub-task of a fan-out failed the aggregation raises: the
\* engine does not go on to the summarization (or context_qa) with no answer.
C23_AllFailedRaises ==
    (fanpc \in {"summarize", "context_qa"} /\ gathered # << >>) => answers # << >>

\* ------------------------------------------- the wrappers of an LLM call
\* prod_run and prod_run_stream of _pydantic_ai_adapter/agent_utils.py. They
\* send EventTaskRoot, the name agent_utils.py imports for the "task root
\* event" that event.py defines as EventTaskStart.

MaxChunks == 3
Chunks == {"a", "b"}

RECURSIVE SeqsUpTo(_, _)
SeqsUpTo(S, n) ==
    IF n = 0 THEN {<< >>}
    ELSE LET shorter == SeqsUpTo(S, n - 1)
         IN shorter \cup {Append(q, x) : q \in {t \in shorter : Len(t) = n - 1}, x \in S}

\* EventTaskOutputStreamDelta(ctx, task_output_delta, stopped).
Delta(ctx, chunk, stopped) ==
    [event_type |-> "task_output_delta", ctx |-> ctx, is_result |-> FALSE,
     stopped |-> stopped, task_output_delta |-> chunk]

\* One step of a wrapper: an event handed to event_send ("send"), a chunk
\* the stream handed to the loop ("chunk", held in a delta with no ctx), or a
\* point of its control flow ("await", "enter", "return", "raise").
Step(op, e) == [op |-> op, event |-> e]
Sends(es) == [k \in DOMAIN es |-> Step("send", es[k])]

\* send_event of several events in a row, on collector c.
DeliverAll(c, es) ==
    IF c = deps[1].event_collector
    THEN /\ chan' = chan \o es
         /\ sent' = sent \o es
    ELSE UNCHANGED <<chan, sent>>

prodOthers == <<targetVars, driverVars, handleVars, historyVars, fanVars, jinaVars, uiVars>>

\* prod_run up to "result = await run", with the events in another order.
ProdRunCall_AwaitFirst(h) ==
    LET root == Event("task_start",
                      Stamp(deps[h].event_parent, deps[h].event_parent, nextSpan),
                      FALSE, FALSE)
    IN /\ prodpc = "idle"
       /\ DeliverAll(deps[h].event_collector, << root >>)
       /\ prodLog' = prodLog \o << Step("await", NoEvent), Step("send", root) >>
       /\ prodFn' = "prod_run"
       /\ prodH' = h
       /\ prodpc' = "run_await"
       /\ UNCHANGED <<nextSpan, prodSpan, chunksLeft, prodOthers>>

\* prod_run(deps, run) up to "result = await run": the root event carries
\* the handle's own context.
ProdRunCall(h) ==
    LET root == Event("task_start",
                      Stamp(deps[h].event_parent, deps[h].event_parent, nextSpan),
                      FALSE, FALSE)
    IN /\ prodpc = "idle"
       /\ DeliverAll(deps[h].event_collector, << root >>)
       /\ prodLog' = prodLog \o << Step("send", root), Step("await", NoEvent) >>
       /\ prodFn' = "prod_run"
       /\ prodH' = h
       /\ prodpc' = "run_await"
       /\ UNCHANGED <<nextSpan, prodSpan, chunksLeft, prodOthers>>

\* "await run" returns: the output is sent with no ctx and prod_run returns.
ProdRunCompletes ==
    LET h == prodH
        out == Event("task_output", Stamp(NoCtx, deps[h].event_parent, nextSpan),
                     TRUE, FALSE)
    IN /\ prodFn = "prod_run"
       /\ prodpc = "run_await"
       /\ DeliverAll(deps[h].event_collector, << out >>)
       /\ nextSpan' = nextSpan + 1
       /\ prodLog' = prodLog \o << Step("send", out), Step("return", NoEvent) >>
       /\ prodpc' = "returned"
       /\ UNCHANGED <<prodFn, prodH, prodSpan, chunksLeft, prodOthers>>

\* "await run" raises: the error leaves prod_run.
ProdRunRaises ==
    /\ prodFn = "prod_run"
    /\ prodpc = "run_await"
    /\ prodLog' = Append(prodLog, Step("raise", NoEvent))
    /\ prodpc' = "raised"
    /\ UNCHANGED <<prodFn, prodH, prodSpan, chunksLeft, channelVars, prodOthers>>

\* prod_run_stream(deps, stream) up to the first chunk: the root event, the
\* stream span, the stream event, then "async with stream as response".
ProdRunStreamCall(h, chunks) ==
    LET root == Event("task_start",
                      Stamp(deps[h].event_parent, deps[h].event_parent, nextSpan),
                      FALSE, FALSE)
        span == ContextSpawn(deps[h].event_parent, nextSpan)
        strm == Event("task_output_stream",
                      Stamp(span, deps[h].event_parent, nextSpan + 1), TRUE, FALSE)
    IN /\ prodpc = "idle"
       /\ DeliverAll(deps[h].event_collector, << root, strm >>)
       /\ nextSpan' = nextSpan + 1
       /\ prodSpan' = span
       /\ prodLog' = prodLog \o Sends(<< root, strm >>) \o << Step("enter", NoEvent) >>
       /\ prodFn' = "prod_run_stream"
       /\ prodH' = h
       /\ chunksLeft' = chunks
       /\ prodpc' = "stream_iter"
       /\ UNCHANGED prodOthers

\* One turn of "async for result in response.stream_text(delta=True)", the
\* delta leaving out the chunk.
ProdRunStreamChunk_DropsChunk ==
    LET h == prodH
        delta == Delta(Stamp(ContextSpawn(prodSpan, nextSpan), deps[h].event_parent,
                             nextSpan + 1), "", FALSE)
    IN /\ prodFn = "prod_run_stream"
       /\ prodpc = "stream_iter"
       /\ chunksLeft # << >>
       /\ DeliverAll(deps[h].event_collector, << delta >>)
       /\ nextSpan' = nextSpan + 1
       /\ prodLog' = prodLog \o << Step("chunk", Delta(NoCtx, Head(chunksLeft), FALSE)),
                                   Step("send", delta) >>
       /\ chunksLeft' = Tail(chunksLeft)
       /\ UNCHANGED <<prodFn, prodpc, prodH, prodSpan, prodOthers>>

\* One turn of "async for result in response.stream_text(delta=True)".
ProdRunStreamChunk ==
    LET h == prodH
        delta == Delta(Stamp(ContextSpawn(prodSpan, nextSpan), deps[h].event_parent,
                             nextSpan + 1), Head(chunksLeft), FALSE)
    IN /\ prodFn = "prod_run_stream"
       /\ prodpc = "stream_iter"
       /\ chunksLeft # << >>
       /\ DeliverAll(deps[h].event_collector, << delta >>)
       /\ nextSpan' = nextSpan + 1
       /\ prodLog' = prodLog \o << Step("chunk", Delta(NoCtx, Head(chunksLeft), FALSE)),
                                   Step("send", delta) >>
       /\ chunksLeft' = Tail(chunksLeft)
       /\ UNCHANGED <<prodFn, prodpc, prodH, prodSpan, prodOthers>>

\* The stream is exhausted: the closing delta is sent and prod_run_stream
\* returns the response.
ProdRunStreamEnds ==
    LET h == prodH
        delta == Delta(Stamp(ContextSpawn(prodSpan, nextSpan), deps[h].event_parent,
                             nextSpan + 1), "", TRUE)
    IN /\ prodFn = "prod_run_stream"
       /\ prodpc = "stream_iter"
       /\ chunksLeft = << >>
       /\ DeliverAll(deps[h].event_collector, << delta >>)
       /\ nextSpan' = nextSpan + 1
       /\ prodLog' = prodLog \o << Step("send", delta), Step("return", NoEvent) >>
       /\ prodpc' = "returned"
       /\ UNCHANGED <<prodFn, prodH, prodSpan, chunksLeft, prodOthers>>

\* Entering the stream or fetching its next chunk raises: the error leaves
\* prod_run_stream.
ProdRunStreamRaises ==
    /\ prodFn = "prod_run_stream"
    /\ prodpc = "stream_iter"
    /\ prodLog' = Append(prodLog, Step("raise", NoEvent))
    /\ prodpc' = "raised"
    /\ UNCHANGED <<prodFn, prodH, prodSpan, chunksLeft, channelVars, prodOthers>>

NextProd ==
    \/ ForkDeps
    \/ Spawn
    \/ \E h \in Handles : ProdRunCall(h)
    \/ ProdRunCompletes
    \/ ProdRunRaises
    \/ \E h \in Handles : \E chunks \in SeqsUpTo(Chunks, MaxChunks) :
          ProdRunStreamCall(h, chunks)
    \/ ProdRunStreamChunk
    \/ ProdRunStreamEnds
    \/ ProdRunStreamRaises

SpecProd == Init /\ [][NextProd]_vars

\* Where the steps of one kind, and the events of one type, stand in the log.
StepsAt(op) == {k \in DOMAIN prodLog : prodLog[k].op = op}
SendsOf(type) == {k \in StepsAt("send") : prodLog[k].event.event_type = type}
ChildOf(ctx, parent) ==
    /\ ctx.trace_id = parent.trace_id
    /\ ctx.parent_id = parent.span_id
    /\ ctx.span_id # parent.span_id

\* C24: prod_run sends the root event before it awaits the LLM call; when
\* the call completes it sends exactly one TaskOutput with is_result set,
\* stamped as a child of the handle's span, after the call and before it
\* returns; when the call raises it sends no TaskOutput.
C24_ProdRunEvents ==
    prodFn = "prod_run" =>
        LET outs == SendsOf("task_output")
            parent == deps[prodH].event_parent
        IN /\ \A a \in StepsAt("await") :
                 \E k \in SendsOf("task_start") : k < a /\ prodLog[k].event.ctx = parent
           /\ prodpc \in {"run_await", "raised"} => outs = {}
           /\ prodpc = "returned" =>
                 /\ Cardinality(outs) = 1
                 /\ \A k \in outs :
                       /\ prodLog[k].event.is_result
                       /\ ChildOf(prodLog[k].event.ctx, parent)
                       /\ \A a \in StepsAt("await") : a < k
                       /\ \A r \in StepsAt("return") : k < r
                 /\ StepsAt("return") # {}

\* prod_run has returned on a handle spawned from the root handle.
C24_Witness ==
    /\ prodFn = "prod_run"
    /\ prodpc = "returned"
    /\ prodH > 1
    /\ Len(sent) = 2

\* C25: prod_run_stream sends exactly one TaskOutputStream with is_result
\* set, on a span that is a child of the handle's span, before it consumes
\* the stream; then one delta with stopped unset per chunk, in chunk order
\* and parented at the stream span; then exactly one delta with stopped set,
\* the last event it sends before it returns.
C25_ProdRunStreamEvents ==
    prodFn = "prod_run_stream" =>
        LET strms == SendsOf("task_output_stream")
            deltas == SendsOf("task_output_delta")
            stops == {k \in deltas : prodLog[k].event.stopped}
            parent == deps[prodH].event_parent
            n == Len(prodLog)
        IN /\ Cardinality(strms) = 1
           /\ \A k \in strms :
                 /\ prodLog[k].event.is_result
                 /\ ChildOf(prodLog[k].event.ctx, parent)
                 /\ \A en \in StepsAt("enter") : k < en
                 /\ \A d \in deltas :
                       /\ k < d
                       /\ ChildOf(prodLog[d].event.ctx, prodLog[k].event.ctx)
           /\ \A en \in StepsAt("enter") : \A c \in StepsAt("chunk") : en < c
           /\ \A c \in StepsAt("chunk") :
                 /\ c + 1 \in deltas \ stops
                 /\ prodLog[c + 1].event.task_output_delta
                       = prodLog[c].event.task_output_delta
           /\ Cardinality(deltas \ stops) = Cardinality(StepsAt("chunk"))
           /\ prodpc # "returned" => stops = {}
           /\ prodpc = "returned" =>
                 /\ stops = {n - 1}
                 /\ prodLog[n].op = "return"
                 /\ chunksLeft = << >>

\* prod_run_stream has returned after three chunks, the first and the last
\* different, on a handle spawned from the root handle.
C25_Witness ==
    /\ prodFn = "prod_run_stream"
    /\ prodpc = "returned"
    /\ prodH > 1
    /\ Cardinality(StepsAt("chunk")) = 3
    /\ \E c, d \in StepsAt("chunk") :
          c < d /\ prodLog[c].event.task_output_delta # prodLog[d].event.task_output_delta

\* C26: at any moment at most one active run receives from a channel,
\* counting the runs on the root handle and on every handle forked from it.
C26_OneConsumerPerChannel ==
    \A h, g \in Handles :
        deps[h].event_collector = deps[g].event_collector =>
            /\ active[h] <= 1
            /\ h # g => ~(active[h] > 0 /\ active[g] > 0)

\* --------------------------------------------------- the Jina client
\* JinaClient of resources/jina_client.py.  search and read are wrapped by
\* tenacity's retry(stop=stop_after_attempt(3), wait=wait_random(),
\* retry=retry_if_exception_type(HTTPStatusError)).

MaxNum == 2
MaxPages == 2
MaxPageSize == 2

\* stop_after_attempt(3).
StopAfterAttempt == 3

\* What one attempt of search or read may end with: a response, the error of
\* raise_for_status, or another error (of the transport or of the validation).
AttemptOutcomes == {"ok", "HTTPStatusError", "ConnectError"}

\* A call of a retried method: the attempts made, what each ended with, and
\* whether the call is still going on, has returned or has raised "err".
NewCall(fn) ==
    [fn |-> fn, attempts |-> 0, tries |-> << >>, state |-> "pending", err |-> NoError]

\* Retry that takes every error for one to retry.
Retry_OnAnyError(c, outcome) ==
    LET n == c.attempts + 1
        made == [c EXCEPT !.attempts = n, !.tries = Append(@, outcome)]
    IN IF outcome = "ok" THEN [made EXCEPT !.state = "returned"]
       ELSE IF n >= StopAfterAttempt
            THEN [made EXCEPT !.state = "raised", !.err = "RetryError"]
            ELSE made

\* One attempt of call c ends with "outcome": the result is returned; an
\* error that is not HTTPStatusError is raised as it is; HTTPStatusError is
\* retried unless this was the last attempt allowed, and then RetryError is
\* raised.
Retry(c, outcome) ==
    LET n == c.attempts + 1
        made == [c EXCEPT !.attempts = n, !.tries = Append(@, outcome)]
    IN IF outcome = "ok" THEN [made EXCEPT !.state = "returned"]
       ELSE IF outcome # "HTTPStatusError"
            THEN [made EXCEPT !.state = "raised", !.err = outcome]
            ELSE IF n >= StopAfterAttempt
                 THEN [made EXCEPT !.state = "raised", !.err = "RetryError"]
                 ELSE made

jinaOthers == <<coreVars, fanVars, prodVars, uiVars>>

\* search_with_read(query, num) up to the first attempt of the first search.
SearchWithRead ==
    /\ jpc = "idle"
    /\ \E n \in 1..MaxNum : num' = n
    /\ searches' = << NewCall("search") >>
    /\ jpc' = "search"
    /\ UNCHANGED <<page, search_l, reads, result_l, jinaOthers>>

\* An attempt of the search of the current page ends.  When the call has
\* returned, its results (their id_ numbered on) are added to search_l and
\* the loop goes on to the next page or, with num results, to the reads;
\* when it has raised, "except Exception" raises RuntimeError.  The loop has
\* no limit of its own: "page" and the calls kept in "searches" are counted
\* up to MaxPages, a later page taking the place of the last one.
SearchAttempt ==
    /\ jpc = "search"
    /\ \E outcome \in AttemptOutcomes : \E size \in 0..MaxPageSize :
         LET k == Len(searches)
             c == Retry(searches[k], outcome)
             found == search_l \o [j \in 1..size |-> Len(search_l) + j]
         IN /\ outcome # "ok" => size = 0
            /\ CASE c.state = "pending" ->
                      /\ searches' = [searches EXCEPT ![k] = c]
                      /\ UNCHANGED <<jpc, page, search_l, reads>>
                 [] c.state = "raised" ->
                      /\ searches' = [searches EXCEPT ![k] = c]
                      /\ jpc' = "raised"
                      /\ UNCHANGED <<page, search_l, reads>>
                 [] c.state = "returned" /\ Len(found) < num ->
                      /\ searches' = IF page < MaxPages
                                     THEN Append([searches EXCEPT ![k] = c],
                                                 NewCall("search"))
                                     ELSE [searches EXCEPT ![k] = NewCall("search")]
                      /\ search_l' = found
                      /\ page' = IF page < MaxPages THEN page + 1 ELSE page
                      /\ UNCHANGED <<jpc, reads>>
                 [] c.state = "returned" /\ Len(found) >= num ->
                      /\ searches' = [searches EXCEPT ![k] = c]
                      /\ search_l' = SubSeq(found, 1, num)
                      /\ page' = page + 1
                      /\ reads' = [i \in 1..num |-> NewCall("read")]
                      /\ jpc' = "read"
    /\ UNCHANGED <<num, result_l, jinaOthers>>

\* An attempt of one of the reads that gather runs ends.
ReadAttempt ==
    /\ jpc = "read"
    /\ \E i \in DOMAIN reads : \E outcome \in AttemptOutcomes :
         /\ reads[i].state = "pending"
         /\ reads' = [reads EXCEPT ![i] = Retry(reads[i], outcome)]
    /\ UNCHANGED <<jpc, num, page, search_l, searches, result_l, jinaOthers>>

\* ReadData with the id_ of the read's own data kept (a fresh uuid4, which is
\* the id_ of no search result).
RECURSIVE ReadData_KeepsOwnId(_, _, _)
ReadData_KeepsOwnId(srch, rd, i) ==
    IF i > Len(srch) THEN << >>
    ELSE (IF rd[i].state = "raised" THEN << >> ELSE << Len(srch) + i >>)
         \o ReadData_KeepsOwnId(srch, rd, i + 1)

\* The id_ of the results whose read returned, in the order of search_l.
RECURSIVE ReadData(_, _, _)
ReadData(srch, rd, i) ==
    IF i > Len(srch) THEN << >>
    ELSE (IF rd[i].state = "raised" THEN << >> ELSE << srch[i] >>)
         \o ReadData(srch, rd, i + 1)

\* gather has returned: the reads that raised are logged, the others are
\* collected, and search_with_read returns result_l.
ReadsGathered ==
    /\ jpc = "read"
    /\ \A i \in DOMAIN reads : reads[i].state # "pending"
    /\ result_l' = ReadData(search_l, reads, 1)
    /\ jpc' = "returned"
    /\ UNCHANGED <<num, page, search_l, searches, reads, jinaOthers>>

NextJina ==
    \/ SearchWithRead
    \/ SearchAttempt
    \/ ReadAttempt
    \/ ReadsGathered

SpecJina == Init /\ [][NextJina]_vars

JinaCalls == {searches[k] : k \in DOMAIN searches} \cup {reads[i] : i \in DOMAIN reads}

\* C27: a call of search or read makes at most 3 attempts: an attempt that
\* fails with HTTPStatusError is retried while fewer than 3 attempts were
\* made, any other error is raised at once, and after the third failed
\* attempt the call raises instead of returning a result.
C27_AtMostThreeAttempts ==
    \A c \in JinaCalls :
        LET n == Len(c.tries)
        IN /\ n <= 3
           /\ \A t \in 1..(n - 1) : c.tries[t] = "HTTPStatusError"
           /\ c.state = "pending" <=>
                 (n < 3 /\ (n > 0 => c.tries[n] = "HTTPStatusError"))
           /\ c.state = "returned" <=> (n > 0 /\ c.tries[n] = "ok")
           /\ (n > 0 /\ c.tries[n] = "ConnectError") =>
                 (c.state = "raised" /\ c.err = "ConnectError")
           /\ (n = 3 /\ c.tries[n] # "ok") => c.state = "raised"

\* A read that failed three times with HTTPStatusError, next to a read that
\* returned at its third attempt.
C27_Witness ==
    /\ jpc = "read"
    /\ \E i, j \in DOMAIN reads :
          /\ reads[i].tries = << "HTTPStatusError", "HTTPStatusError", "HTTPStatusError" >>
          /\ reads[i].state = "raised"
          /\ reads[j].tries = << "HTTPStatusError", "HTTPStatusError", "ok" >>

\* C28: search_with_read surfaces a failure as a raised error, never as an
\* empty success: it raises when the search fails, and it does not return an
\* empty list when the search succeeded and every read failed.
C28_NoEmptySuccess ==
    /\ (\E k \in DOMAIN searches : searches[k].state = "raised") => jpc = "raised"
    /\ (jpc = "returned" /\ \A i \in DOMAIN reads : reads[i].state = "raised")
          => result_l # << >>

\* ------------------------------------------- events after a stream start
\* A target that starts a result stream and then sends whatever it likes.

MaxAfterStart == 2

SendAfterStart ==
    IF sent = << >>
    THEN /\ TargetRuns
         /\ LET e == Event("task_output_stream", ContextSpawn(HandleCtx, nextSpan),
                           TRUE, FALSE)
            IN /\ chan' = Append(chan, e)
               /\ sent' = Append(sent, e)
         /\ nextSpan' = nextSpan + 1
         /\ UNCHANGED <<targetVars, driverVars, handleVars, historyVars, pipeVars>>
    ELSE /\ Len(sent) < 1 + MaxAfterStart
         /\ SendAny

NextAfterStart ==
    \/ SendAfterStart
    \/ TargetReturn
    \/ TargetRaise
    \/ Start
    \/ Receive
    \/ Resume
    \/ YieldEndResult
    \/ RaiseError
    \/ Finish
    \/ Close

SpecAfterStart == Init /\ [][NextAfterStart]_vars

\* The i-th item is a member of the stream the run is in: a delta parented at
\* the stream's span.
IsMember(e, span) ==
    /\ span # NoCtx
    /\ IsDelta(e)
    /\ e.ctx.parent_id = span.span_id

\* The i-th item ended the loop: only EndResult follows it and the loop does
\* not receive again.
EndsLoop(i) ==
    /\ \A j \in DOMAIN yielded : j > i => yielded[j].kind = "end"
    /\ pc # "recv"
    /\ (i = Len(yielded) /\ pc = "yield") => brk

\* The loop goes on after the i-th item: when it is the last item handed
\* over, the generator has not left the loop and will not at its resumption.
GoesOn(i) ==
    i = Len(yielded) =>
        /\ ~brk
        /\ atBreak = "none"
        /\ pc \in {"yield", "recv", "raised", "closed"}

\* C29 as stated: after a result stream has started, an event that is not a
\* member of the stream is classified as in the initial state; a TaskOutput
\* with is_result that is a child of the handle's span is forwarded tagged
\* true and ends the loop.
C29_FallsBackToInitial ==
    \A i \in Forwarded :
        LET e == yielded[i].event
            before == StreamBefore(i)
        IN (before # NoCtx /\ ~IsMember(e, before)) =>
              IF ~IsDirect(e) THEN ~yielded[i].tag
              ELSE IF IsResultOutput(e) THEN yielded[i].tag /\ EndsLoop(i)
              ELSE IF IsResultStream(e) THEN yielded[i].tag
              ELSE ~yielded[i].tag

\* C29: after a result stream has started, an event that is not a member of
\* the stream is forwarded tagged false, leaves the stream span as it was
\* and does not end the loop, be it foreign or a child of the handle's span;
\* a TaskOutput with is_result that is a child of the handle's span is
\* forwarded tagged false and the loop goes on.
C29_NoResultAfterStart ==
    \A i \in Forwarded :
        LET e == yielded[i].event
            before == StreamBefore(i)
        IN (before # NoCtx /\ ~IsMember(e, before)) =>
              /\ ~yielded[i].tag
              /\ i = Len(yielded) => stream_span = before
              /\ GoesOn(i)

\* The stream start, then a TaskOutput with is_result as a child of the
\* handle's span: it was forwarded tagged false and the loop receives again.
C29_Witness ==
    /\ Len(sent) >= 2
    /\ IsDirect(sent[2]) /\ IsResultOutput(sent[2])
    /\ yielded = << Pair(sent[1], TRUE), Pair(sent[2], FALSE) >>
    /\ pc = "recv"

\* C30 as stated: while a result stream goes on, every event whose parent_id
\* is the stream's span_id is forwarded tagged true, whatever its kind, and
\* the loop ends when such an event has stopped set.
C30_AnyKindIsMember ==
    \A i \in Forwarded :
        LET e == yielded[i].event
            before == StreamBefore(i)
        IN (before # NoCtx /\ e.ctx.parent_id = before.span_id) =>
              /\ yielded[i].tag
              /\ e.stopped => EndsLoop(i)

\* C30: while a result stream goes on, every delta whose parent_id is the
\* stream's span_id is forwarded tagged true, and the loop ends when such a
\* delta has stopped set and goes on when it has not; an event of another
\* kind with that parent_id is forwarded tagged false and the loop goes on.
C30_DeltaIsMember ==
    \A i \in Forwarded :
        LET e == yielded[i].event
            before == StreamBefore(i)
        IN (before # NoCtx /\ e.ctx.parent_id = before.span_id) =>
              /\ yielded[i].tag = IsDelta(e)
              /\ IF IsDelta(e) /\ e.stopped THEN EndsLoop(i) ELSE GoesOn(i)

\* The stream start, an event that is not a delta parented at the stream's
\* span, then a delta with stopped set: false, then true and the loop ended.
C30_Witness ==
    /\ Len(sent) = 3
    /\ ~IsDelta(sent[2]) /\ sent[2].ctx.parent_id = sent[1].ctx.span_id
    /\ IsDelta(sent[3]) /\ sent[3].stopped /\ sent[3].ctx.parent_id = sent[1].ctx.span_id
    /\ yielded = << Pair(sent[1], TRUE), Pair(sent[2], FALSE), Pair(sent[3], TRUE),
                    EndResult(result) >>
    /\ pc = "done"

\* ------------------------------------------------------- claims C31 to C38

\* ----------------------------------- events after an unmarked direct child
\* A target whose first event is a child of the handle's span that is not a
\* marked result, and that then sends whatever it likes.

MaxAfterUnmarked == 2

SendAfterUnmarked ==
    IF sent = << >>
    THEN \/ Send("task_start", HandleSpan, FALSE, FALSE)
         \/ Send("task_output", HandleSpan, FALSE, FALSE)
         \/ Send("task_output_stream", HandleSpan, FALSE, FALSE)
    ELSE /\ Len(sent) < 1 + MaxAfterUnmarked
         /\ SendAny

NextAfterUnmarked ==
    \/ SendAfterUnmarked
    \/ TargetReturn
    \/ TargetRaise
    \/ Start
    \/ Receive
    \/ Resume
    \/ YieldEndResult
    \/ RaiseError
    \/ Finish
    \/ Close

SpecAfterUnmarked == Init /\ [][NextAfterUnmarked]_vars

\* The spans of the streams sent as children of the handle's span with
\* is_result unset.
UnmarkedStreamSpans ==
    {sent[j].ctx.span_id :
        j \in {k \in DOMAIN sent : /\ sent[k].event_type = "task_output_stream"
                                   /\ IsDirect(sent[k])
                                   /\ ~sent[k].is_result}}

\* C31: a child of the handle's span that is not a marked result (a
\* TaskStart, a TaskOutput or a TaskOutputStream with is_result unset) is
\* forwarded tagged false, leaves the stream span as it was and does not end
\* the loop; a TaskOutputStream with is_result unset starts no stream, so a
\* delta parented at its span is forwarded tagged false and, stopped or
\* not, does not end the loop.
C31_UnmarkedDirectChild ==
    \A i \in Forwarded :
        LET e == yielded[i].event
            before == StreamBefore(i)
            unmarked == /\ IsDirect(e)
                        /\ ~IsResultOutput(e)
                        /\ ~IsResultStream(e)
            ofUnmarked == IsDelta(e) /\ e.ctx.parent_id \in UnmarkedStreamSpans
        IN (unmarked \/ ofUnmarked) =>
              /\ ~yielded[i].tag
              /\ i = Len(yielded) => stream_span = before
              /\ GoesOn(i)

\* A TaskOutputStream with is_result unset, then a stopped delta parented at
\* its span: both were forwarded tagged false and the loop receives again.
C31_Witness ==
    /\ Len(sent) >= 2
    /\ sent[1].event_type = "task_output_stream" /\ ~sent[1].is_result
    /\ IsDelta(sent[2]) /\ sent[2].stopped
    /\ sent[2].ctx.parent_id = sent[1].ctx.span_id
    /\ yielded = << Pair(sent[1], FALSE), Pair(sent[2], FALSE) >>
    /\ stream_span = NoCtx
    /\ pc = "recv"

\* The marked streams sent as children of the handle's span after the first
\* event, which starts the run's stream: their spans.
LaterStreamSpans ==
    {sent[j].ctx.span_id :
        j \in {k \in DOMAIN sent : /\ k > 1
                                   /\ IsDirect(sent[k])
                                   /\ IsResultStream(sent[k])}}

\* C34: the stream span is assigned once in a run.  After the first
\* TaskOutputStream with is_result that is a child of the handle's span, a
\* second one is forwarded tagged false and the remembered span stays that of
\* the first; a delta of the second stream is forwarded tagged false and
\* does not end the loop, stopped or not, and the deltas tagged true are
\* those of the first stream.
C34_StreamSpanAssignedOnce ==
    (sent # << >> /\ IsDirect(sent[1]) /\ IsResultStream(sent[1])) =>
        /\ stream_span \in {NoCtx, sent[1].ctx}
        /\ \A i \in Forwarded :
              LET e == yielded[i].event
              IN /\ (i > 1 /\ IsDirect(e) /\ IsResultStream(e)) =>
                        /\ ~yielded[i].tag
                        /\ GoesOn(i)
                 /\ (IsDelta(e) /\ e.ctx.parent_id \in LaterStreamSpans) =>
                        /\ ~yielded[i].tag
                        /\ GoesOn(i)
                 /\ (IsDelta(e) /\ yielded[i].tag) =>
                        e.ctx.parent_id = sent[1].ctx.span_id

\* Two marked streams, then a stopped delta of the second: the second stream
\* and its delta were forwarded tagged false and the loop receives again.
C34_Witness ==
    /\ Len(sent) = 3
    /\ IsDirect(sent[2]) /\ IsResultStream(sent[2])
    /\ IsDelta(sent[3]) /\ sent[3].stopped
    /\ sent[3].ctx.parent_id = sent[2].ctx.span_id
    /\ yielded = << Pair(sent[1], TRUE), Pair(sent[2], FALSE), Pair(sent[3], FALSE) >>
    /\ stream_span = sent[1].ctx
    /\ pc = "recv"

\* The hits whose read returned, and the k-th of them in the order of the
\* hits.
ReadOk == {i \in DOMAIN reads : reads[i].state = "returned"}
KthReadOk(k) ==
    CHOOSE i \in ReadOk : Cardinality({j \in ReadOk : j < i}) = k - 1

\* C36: search_with_read returns at most num items in the order of the
\* search hits: the items are the reads that succeeded, each with the id_ of
\* its hit, and a hit whose read failed is left out with the id_ and the
\* order of the others as they were.
C36_ReadsInHitOrder ==
    jpc = "returned" =>
        /\ Len(result_l) <= num
        /\ Len(search_l) = num
        /\ Len(result_l) = Cardinality(ReadOk)
        /\ \A k \in DOMAIN result_l : result_l[k] = search_l[KthReadOk(k)]
        /\ \A i, j \in DOMAIN search_l : i < j => search_l[i] < search_l[j]

\* Two hits, the read of the first failed after three attempts, the read of
\* the second returned: the one item returned has the id_ of the second hit.
C36_Witness ==
    /\ jpc = "returned"
    /\ num = 2
    /\ reads[1].state = "raised" /\ reads[1].attempts = StopAfterAttempt
    /\ reads[2].state = "returned"
    /\ result_l = << search_l[2] >>

\* The scheduling of the event loop: an attempt that was made ends, and
\* search_with_read goes on when gather has returned.
FairSpecJina ==
    /\ SpecJina
    /\ WF_vars(SearchAttempt)
    /\ WF_vars(ReadAttempt)
    /\ WF_vars(ReadsGathered)

\* C37: search_with_read always eventually returns or raises, whatever the
\* pages the search returns, pages with no result among them.
C37_Terminates ==
    (jpc = "search") ~> (jpc \in {"returned", "raised"})

\* ------------------------------------------------- a tool with events
\* The wrapper that with_events makes, called by the target of a run that
\* consumes on the first handle.

MaxToolEvents == 2

\* wrapper(ctx, ...) up to the call of func: the handle is forked, the root
\* event carries the fork's own context, then func is called.
ToolCall ==
    LET f == Forked(deps[1], nextSpan)
        root == Event("task_start",
                      Stamp(f.event_parent, f.event_parent, nextSpan + 1), FALSE, FALSE)
    IN /\ TargetRuns
       /\ prodpc = "idle"
       /\ Len(deps) < MaxHandles
       /\ deps' = Append(deps, f)
       /\ forkedFrom' = Append(forkedFrom, 1)
       /\ active' = Append(active, 0)
       /\ ran' = Append(ran, FALSE)
       /\ rejected' = Append(rejected, FALSE)
       /\ DeliverAll(f.event_collector, << root >>)
       /\ nextSpan' = nextSpan + 1
       /\ prodLog' = prodLog \o << Step("send", root), Step("await", NoEvent) >>
       /\ prodFn' = "with_events"
       /\ prodH' = Len(deps) + 1
       /\ prodpc' = "func_await"
       /\ UNCHANGED <<nruns, targetVars, driverVars, historyVars, prodSpan, chunksLeft,
                      fanVars, jinaVars, uiVars>>

\* func has returned, the output being sent through the caller's handle.
ToolReturns_SendsOnCaller ==
    LET out == Event("task_output", Stamp(NoCtx, deps[1].event_parent, nextSpan),
                     TRUE, FALSE)
    IN /\ TargetRuns
       /\ prodFn = "with_events"
       /\ prodpc = "func_await"
       /\ DeliverAll(deps[1].event_collector, << out >>)
       /\ nextSpan' = nextSpan + 1
       /\ prodLog' = prodLog \o << Step("send", out), Step("return", NoEvent) >>
       /\ prodpc' = "returned"
       /\ UNCHANGED <<prodFn, prodH, prodSpan, chunksLeft, prodOthers>>

\* func has returned: the output is sent with no ctx through the fork, and
\* the wrapper returns the result.
ToolReturns ==
    LET out == Event("task_output", Stamp(NoCtx, deps[prodH].event_parent, nextSpan),
                     TRUE, FALSE)
    IN /\ TargetRuns
       /\ prodFn = "with_events"
       /\ prodpc = "func_await"
       /\ DeliverAll(deps[prodH].event_collector, << out >>)
       /\ nextSpan' = nextSpan + 1
       /\ prodLog' = prodLog \o << Step("send", out), Step("return", NoEvent) >>
       /\ prodpc' = "returned"
       /\ UNCHANGED <<prodFn, prodH, prodSpan, chunksLeft, prodOthers>>

\* func has raised: the error leaves the wrapper.
ToolRaises ==
    /\ TargetRuns
    /\ prodFn = "with_events"
    /\ prodpc = "func_await"
    /\ prodLog' = Append(prodLog, Step("raise", NoEvent))
    /\ prodpc' = "raised"
    /\ UNCHANGED <<prodFn, prodH, prodSpan, chunksLeft, channelVars, prodOthers>>

\* The target's own events, next to those of the tool.
ToolTargetSend ==
    /\ Len(sent) - Cardinality(StepsAt("send")) < MaxToolEvents
    /\ SendAny

NextTool ==
    \/ ToolCall
    \/ ToolReturns
    \/ ToolRaises
    \/ ToolTargetSend
    \/ TargetReturn
    \/ TargetRaise
    \/ Start
    \/ Receive
    \/ Resume
    \/ YieldEndResult
    \/ RaiseError
    \/ Finish
    \/ Close

SpecTool == Init /\ [][NextTool]_vars

\* The events the wrapper has sent.
ToolEvents == {prodLog[k].event : k \in StepsAt("send")}

\* C35: the events of a tool wrapped by with_events, its TaskStart stamped
\* with the forked span and its TaskOutput with is_result, a child of the
\* forked span, are forwarded tagged false by the run that consumes on the
\* handle the tool was called with and do not end its loop; the TaskStart
\* is sent before the wrapped function runs, the TaskOutput after it has
\* returned, and no TaskOutput is sent when it raises.
C35_ToolEventsAreNoResult ==
    prodFn = "with_events" =>
        LET fork == deps[prodH].event_parent
            starts == SendsOf("task_start")
            outs == SendsOf("task_output")
        IN /\ \A i \in Forwarded :
                 yielded[i].event \in ToolEvents => (~yielded[i].tag /\ GoesOn(i))
           /\ ChildOf(fork, HandleCtx)
           /\ Cardinality(starts) = 1
           /\ \A k \in starts :
                 /\ prodLog[k].event.ctx = fork
                 /\ \A a \in StepsAt("await") : k < a
           /\ prodpc \in {"func_await", "raised"} => outs = {}
           /\ prodpc = "returned" =>
                 /\ Cardinality(outs) = 1
                 /\ \A k \in outs :
                       /\ prodLog[k].event.is_result
                       /\ ChildOf(prodLog[k].event.ctx, fork)
                       /\ \A a \in StepsAt("await") : a < k
                       /\ \A r \in StepsAt("return") : k < r

\* The tool has returned, its two events were forwarded tagged false, and
\* the loop receives again.
C35_Witness ==
    /\ prodFn = "with_events"
    /\ prodpc = "returned"
    /\ Len(sent) = 2
    /\ yielded = << Pair(sent[1], FALSE), Pair(sent[2], FALSE) >>
    /\ {sent[1], sent[2]} = ToolEvents
    /\ pc = "recv"

\* ---------------------------------------------- the engines under a run
\* PardoEngine.summary_qa and VillVEngine.normal_query as the target of a
\* run that consumes on the first handle, with the events they send.  The
\* engines take event_send, spawn, prod_run and prod_run_stream from the
\* stone_brick package; they are modelled by the definitions of the same
\* names in common/event.py and _pydantic_ai_adapter/agent_utils.py, and
\* deps.send(x) by event_send of a TaskOutput with no ctx and is_result unset.
\* The consumer iterates the run to its end: it does not close it.

MaxSubs == 2
MaxPipeChunks == 1

\* search_lang: None, "auto", or a language.
SearchLangs == {"none", "auto", "lang"}

pipeKeeps == <<driverVars, nruns, historyVars, jinaVars, uiVars>>

\* EventTaskOutput with no ctx sent through a handle whose context is c.
TaskOutputOn(c, fresh, is_result) ==
    Event("task_output", Stamp(NoCtx, c, fresh), is_result, FALSE)

\* The root event of prod_run or prod_run_stream on a handle whose context
\* is c.
RootOn(c, fresh) == Event("task_start", Stamp(c, c, fresh), FALSE, FALSE)

\* deps.spawn() leaving the context as it is: the n handles send with the
\* span of the handle they come from.
AppendHandles_SameSpan(n, first) ==
    /\ deps' = deps \o [i \in 1..n |-> deps[1]]
    /\ forkedFrom' = forkedFrom \o [i \in 1..n |-> 1]
    /\ active' = active \o [i \in 1..n |-> 0]
    /\ ran' = ran \o [i \in 1..n |-> FALSE]
    /\ rejected' = rejected \o [i \in 1..n |-> FALSE]

\* deps.spawn() called n times, the spans taken from "first" on.
AppendHandles(n, first) ==
    /\ deps' = deps \o [i \in 1..n |-> Forked(deps[1], first + i - 1)]
    /\ forkedFrom' = forkedFrom \o [i \in 1..n |-> 1]
    /\ active' = active \o [i \in 1..n |-> 0]
    /\ ran' = ran \o [i \in 1..n |-> FALSE]
    /\ rejected' = rejected \o [i \in 1..n |-> FALSE]

\* A call on deps.spawn() begins, with the root event of prod_run or with
\* none.
StartSubCall(withRoot, stage) ==
    /\ AppendHandles(1, nextSpan)
    /\ DeliverAll(deps[1].event_collector,
                  IF withRoot
                  THEN << RootOn(ContextSpawn(deps[1].event_parent, nextSpan),
                                 nextSpan + 1) >>
                  ELSE << >>)
    /\ nextSpan' = nextSpan + 1
    /\ fanpc' = stage

\* summary_qa(deps, query, search_lang) up to its first await: the search
\* when search_lang is None, else auto_translate or _translate on
\* deps.spawn().
SummaryQaCall ==
    /\ TargetRuns
    /\ engine = "none"
    /\ fanpc = "idle"
    /\ engine' = "pardo"
    /\ \E mode \in SearchLangs :
         CASE mode = "none" -> /\ fanpc' = "search"
                               /\ UNCHANGED <<channelVars, deps, forkedFrom, active,
                                              ran, rejected>>
           [] mode = "auto" -> StartSubCall(FALSE, "translate_auto")
           [] mode = "lang" -> StartSubCall(TRUE, "translate_lang")
    /\ UNCHANGED <<searched, gathered, answers, targetVars, prodVars, pipeKeeps>>

\* normal_query(deps, query, search_lang) up to its first await:
\* auto_translate or translate on deps.spawn(), or splitting_question on
\* deps.spawn() when search_lang is None.
NormalQueryCall ==
    /\ TargetRuns
    /\ engine = "none"
    /\ fanpc = "idle"
    /\ engine' = "villv"
    /\ \E mode \in SearchLangs :
         CASE mode = "none" -> StartSubCall(TRUE, "split")
           [] mode = "auto" -> StartSubCall(FALSE, "translate_auto")
           [] mode = "lang" -> StartSubCall(FALSE, "translate_lang")
    /\ UNCHANGED <<searched, gathered, answers, targetVars, prodVars, pipeKeeps>>

\* The translation returns: _translate sends the output of prod_run,
\* auto_translate and translate send the usage.  summary_qa goes on to the
\* search, normal_query to splitting_question on deps.spawn().
TranslateReturns ==
    /\ TargetRuns
    /\ fanpc \in {"translate_auto", "translate_lang"}
    /\ LET out == TaskOutputOn(deps[Len(deps)].event_parent, nextSpan,
                               engine = "pardo" /\ fanpc = "translate_lang")
       IN IF engine = "pardo"
          THEN /\ DeliverAll(deps[1].event_collector, << out >>)
               /\ nextSpan' = nextSpan + 1
               /\ fanpc' = "search"
               /\ UNCHANGED <<deps, forkedFrom, active, ran, rejected>>
          ELSE /\ AppendHandles(1, nextSpan + 1)
               /\ DeliverAll(deps[1].event_collector,
                      << out, RootOn(ContextSpawn(deps[1].event_parent, nextSpan + 1),
                                     nextSpan + 2) >>)
               /\ nextSpan' = nextSpan + 2
               /\ fanpc' = "split"
    /\ UNCHANGED <<engine, searched, gathered, answers, targetVars, prodVars, pipeKeeps>>

\* splitting_question returns n subqueries: with one, summary_qa is called
\* on deps with search_lang None; with more, one summary_qa (or
\* normal_query) per subquery is given to gather, each on deps.spawn().
SplitReturns ==
    /\ TargetRuns
    /\ fanpc = "split"
    /\ \E n \in 1..MaxSubs :
         /\ DeliverAll(deps[1].event_collector,
                       << TaskOutputOn(deps[Len(deps)].event_parent, nextSpan, TRUE) >>)
         /\ IF n = 1
            THEN /\ nextSpan' = nextSpan + 1
                 /\ fanpc' = "search"
                 /\ UNCHANGED <<searched, gathered, deps, forkedFrom, active, ran,
                                rejected>>
            ELSE /\ AppendHandles(n, nextSpan + 1)
                 /\ nextSpan' = nextSpan + 1 + n
                 /\ searched' = [i \in 1..n |-> None]
                 /\ gathered' = [i \in 1..n |-> Pending]
                 /\ fanpc' = "gather"
    /\ UNCHANGED <<engine, answers, targetVars, prodVars, pipeKeeps>>

\* The translation, splitting_question or search_with_read raises: the
\* error leaves the engine method.
StageRaises ==
    /\ TargetRuns
    /\ fanpc \in {"translate_auto", "translate_lang", "split", "search"}
    /\ \E x \in Errors :
         /\ target' = "raised"
         /\ raised' = x
    /\ fanpc' = "raised"
    /\ UNCHANGED <<result, engine, searched, gathered, answers, channelVars, deps,
                   forkedFrom, active, ran, rejected, prodVars, pipeKeeps>>

\* search_with_read returns n sources, each with its published time: they
\* are sent as a TaskOutput with is_result unset, and one _single_qa per source is given to gather, each
\* on deps.spawn().
SearchReturns ==
    /\ TargetRuns
    /\ fanpc = "search"
    /\ \E n \in 0..MaxSubs :
         /\ DeliverAll(deps[1].event_collector,
                       << TaskOutputOn(deps[1].event_parent, nextSpan, FALSE) >>)
         /\ AppendHandles(n, nextSpan + 1)
         /\ nextSpan' = nextSpan + 1 + n
         /\ searched' = [i \in 1..n |-> PublishedTime(i)]
         /\ gathered' = [i \in 1..n |-> Pending]
    /\ fanpc' = "qa"
    /\ UNCHANGED <<engine, answers, targetVars, prodVars, pipeKeeps>>

\* The handle of the i-th sub-task of the gather that is going on: the
\* handles spawned last.
SubHandle(i) == Len(deps) - Len(gathered) + i
SubStarted(i) ==
    \E k \in DOMAIN sent : sent[k].ctx = deps[SubHandle(i)].event_parent

\* _single_qa of source i begins: the root event of its prod_run.
QaStarts ==
    /\ TargetRuns
    /\ fanpc = "qa"
    /\ \E i \in DOMAIN gathered :
         /\ gathered[i] = Pending
         /\ ~SubStarted(i)
         /\ DeliverAll(deps[1].event_collector,
                       << RootOn(deps[SubHandle(i)].event_parent, nextSpan) >>)
    /\ UNCHANGED <<nextSpan, fanVars, targetVars, deps, forkedFrom, active, ran,
                   rejected, prodVars, pipeKeeps>>

\* _single_qa of source i returns: the output of its prod_run.
QaReturns ==
    /\ TargetRuns
    /\ fanpc = "qa"
    /\ \E i \in DOMAIN gathered :
         /\ gathered[i] = Pending
         /\ SubStarted(i)
         /\ DeliverAll(deps[1].event_collector,
                       << TaskOutputOn(deps[SubHandle(i)].event_parent, nextSpan, TRUE) >>)
         /\ gathered' = [gathered EXCEPT ![i] = Returned(i)]
    /\ nextSpan' = nextSpan + 1
    /\ UNCHANGED <<engine, fanpc, searched, answers, targetVars, deps, forkedFrom,
                   active, ran, rejected, prodVars, pipeKeeps>>

\* _single_qa of source i raises: gather keeps the Exception in its place.
QaRaises ==
    /\ TargetRuns
    /\ fanpc = "qa"
    /\ \E i \in DOMAIN gathered :
         /\ gathered[i] = Pending
         /\ SubStarted(i)
         /\ gathered' = [gathered EXCEPT ![i] = Raised(i)]
    /\ UNCHANGED <<engine, fanpc, searched, answers, channelVars, targetVars, deps,
                   forkedFrom, active, ran, rejected, prodVars, pipeKeeps>>

\* gather has returned to summary_qa: the filter and the prompt.
QaAggregate ==
    /\ TargetRuns
    /\ fanpc = "qa"
    /\ AllGathered
    /\ answers' = PardoAnswers(gathered, searched, 1)
    /\ fanpc' = "summarize"
    /\ UNCHANGED <<engine, searched, gathered, channelVars, targetVars, deps,
                   forkedFrom, active, ran, rejected, prodVars, pipeKeeps>>

\* prod_run_stream(deps, run) of summary_qa or of context_qa, on the handle
\* the engine method was given.
PipeStreamCall ==
    /\ TargetRuns
    /\ fanpc \in {"summarize", "context_qa"}
    /\ \E k \in 0..MaxPipeChunks : ProdRunStreamCall(1, [i \in 1..k |-> "a"])

PipeStreamChunk ==
    /\ TargetRuns
    /\ fanpc \in {"summarize", "context_qa"}
    /\ ProdRunStreamChunk

PipeStreamEnds ==
    /\ TargetRuns
    /\ fanpc \in {"summarize", "context_qa"}
    /\ ProdRunStreamEnds

PipeStreamRaises ==
    /\ TargetRuns
    /\ fanpc \in {"summarize", "context_qa"}
    /\ ProdRunStreamRaises

\* The error of the stream leaves the engine method.
PipeStreamFails ==
    /\ prodpc = "raised"
    /\ TargetRaise

\* summary_qa returns the output of the stream.
SummaryQaReturns ==
    /\ fanpc = "summarize"
    /\ prodpc = "returned"
    /\ TargetReturn

\* A summary_qa (or normal_query) given to gather by normal_query returns.
\* What it has sent went through deps.spawn() or handles spawned from it: the
\* sources, the root event and the stream of its own summarization; a
\* normal_query that returns the one answer left has sent no stream.
VillvSubReturns ==
    /\ TargetRuns
    /\ fanpc = "gather"
    /\ \E i \in DOMAIN gathered : \E streams \in BOOLEAN :
         LET c == deps[SubHandle(i)].event_parent
             strm == Event("task_output_stream", ContextSpawn(c, nextSpan + 1),
                           TRUE, FALSE)
             last == Event("task_output_delta", ContextSpawn(strm.ctx, nextSpan + 2),
                           FALSE, TRUE)
         IN /\ gathered[i] = Pending
            /\ DeliverAll(deps[1].event_collector,
                          IF streams
                          THEN << TaskOutputOn(c, nextSpan, FALSE), RootOn(c, nextSpan),
                                  strm, last >>
                          ELSE << >>)
            /\ nextSpan' = IF streams THEN nextSpan + 3 ELSE nextSpan
            /\ gathered' = [gathered EXCEPT ![i] = Returned(i)]
    /\ UNCHANGED <<engine, fanpc, searched, answers, targetVars, deps, forkedFrom,
                   active, ran, rejected, prodVars, pipeKeeps>>

\* A summary_qa (or normal_query) given to gather raises.
VillvSubRaises ==
    /\ TargetRuns
    /\ fanpc = "gather"
    /\ \E i \in DOMAIN gathered :
         /\ gathered[i] = Pending
         /\ gathered' = [gathered EXCEPT ![i] = Raised(i)]
    /\ UNCHANGED <<engine, fanpc, searched, answers, channelVars, targetVars, deps,
                   forkedFrom, active, ran, rejected, prodVars, pipeKeeps>>

\* normal_query returns the one answer left after the filter.
SingleAnswerReturns ==
    /\ engine = "villv"
    /\ fanpc = "returned"
    /\ TargetReturn

\* context_qa after its stream: the usage is sent and the output of the
\* stream is returned, which normal_query returns.
ContextQaReturns ==
    /\ TargetRuns
    /\ fanpc = "context_qa"
    /\ prodpc = "returned"
    /\ DeliverAll(deps[1].event_collector,
                  << TaskOutputOn(deps[1].event_parent, nextSpan, FALSE) >>)
    /\ nextSpan' = nextSpan + 1
    /\ \E v \in ReturnValues :
         /\ target' = "returned"
         /\ result' = v
    /\ UNCHANGED <<raised, fanVars, deps, forkedFrom, active, ran, rejected, prodVars,
                   pipeKeeps>>

NextPardo ==
    \/ SummaryQaCall
    \/ TranslateReturns
    \/ StageRaises
    \/ SearchReturns
    \/ QaStarts
    \/ QaReturns
    \/ QaRaises
    \/ QaAggregate
    \/ PipeStreamCall
    \/ PipeStreamChunk
    \/ PipeStreamEnds
    \/ PipeStreamRaises
    \/ PipeStreamFails
    \/ SummaryQaReturns
    \/ Start
    \/ Receive
    \/ Resume
    \/ YieldEndResult
    \/ RaiseError
    \/ Finish

SpecPardo == Init /\ [][NextPardo]_vars

NextVillv ==
    \/ NormalQueryCall
    \/ TranslateReturns
    \/ SplitReturns
    \/ StageRaises
    \/ SearchReturns
    \/ QaStarts
    \/ QaReturns
    \/ QaRaises
    \/ QaAggregate
    \/ VillvSubReturns
    \/ VillvSubRaises
    \/ NormalQueryAggregate
    \/ PipeStreamCall
    \/ PipeStreamChunk
    \/ PipeStreamEnds
    \/ PipeStreamRaises
    \/ PipeStreamFails
    \/ SummaryQaReturns
    \/ SingleAnswerReturns
    \/ ContextQaReturns
    \/ Start
    \/ Receive
    \/ Resume
    \/ YieldEndResult
    \/ RaiseError
    \/ Finish

SpecVillv == Init /\ [][NextVillv]_vars

\* An event of the summarization stream of summary_qa: its start, or a delta
\* parented at its span.
OfSummaryStream(e) ==
    /\ prodSpan # NoCtx
    /\ \/ e.event_type = "task_output_stream" /\ e.ctx = prodSpan
       \/ IsDelta(e) /\ e.ctx.parent_id = prodSpan.span_id

\* C32: under a run on the handle given to summary_qa, the events forwarded
\* tagged true are exactly the start of the summarization stream and its
\* deltas; every other event (the translation's, the search results, each
\* source's question answering) is forwarded tagged false and the loop goes
\* on after it; no event tagged false follows one tagged true; the loop is
\* ended by the stopped delta of the summarization stream and by no other
\* event; and the EndResult that follows carries what summary_qa returned.
C32_PardoTagsAndEnd ==
    /\ \A i \in Forwarded :
          LET e == yielded[i].event
          IN /\ yielded[i].tag = OfSummaryStream(e)
             /\ IF OfSummaryStream(e) /\ IsDelta(e) /\ e.stopped
                THEN EndsLoop(i)
                ELSE GoesOn(i)
    /\ \A i, j \in Forwarded : (i < j /\ yielded[i].tag) => yielded[j].tag
    /\ \A i \in Ends :
          /\ i > 1
          /\ yielded[i - 1].kind = "pair"
          /\ OfSummaryStream(yielded[i - 1].event)
          /\ yielded[i - 1].event.stopped
          /\ target = "returned"
          /\ yielded[i].res = result

\* A run of summary_qa with a language: the output of the translation and of
\* a source's question answering, both marked is_result on spawned handles,
\* and the search results were forwarded tagged false, then the stream with a
\* chunk tagged true, and EndResult was yielded.
C32_Witness ==
    /\ engine = "pardo"
    /\ Ends # {}
    /\ Len(answers) >= 1
    /\ \E i \in Forwarded :
          /\ yielded[i].event.event_type = "task_output"
          /\ yielded[i].event.ctx.parent_id = HandleSpan
          /\ ~yielded[i].tag
    /\ Cardinality({i \in Forwarded : IsResultOutput(yielded[i].event)
                                      /\ ~yielded[i].tag}) >= 2
    /\ Cardinality({i \in Forwarded : yielded[i].tag}) >= 3

\* C33: under a run on the handle given to normal_query, whenever
\* normal_query has returned, a terminating result parented at that handle's
\* span is among the events it has sent, so that the listen loop is left and
\* EndResult is yielded.
C33_ReturnAfterTerminator ==
    (engine = "villv" /\ target = "returned") => SentTerminator

\* ------------------------------------------------------ the UI bridge
\* simplicity-demo/search_page.py: run_async_generator schedules
\* collect_results on the loop of the background thread, which puts what the
\* search generator yields in result_queue; the loop of
\* run_search_with_ui_updates takes the items in the main thread.

MaxItems == 3

\* What the search generator yields: an (event, bool) pair or the EndResult.
Items == {"pair", "end"}

Item(type, data) == [type |-> type, data |-> data]
DoneItem == Item("done", "None")

uiOthers == <<coreVars, fanVars, prodVars, jinaVars>>

\* run_async_generator(async_gen_func, result_queue), then the UI loop is
\* entered.  No loop available: RuntimeError leaves run_async_generator and
\* run_search_with_ui_updates, which calls it outside its try.
\* run_coroutine_threadsafe raising: the caller puts the error and 'done'.
RunAsyncGenerator ==
    /\ collect = "idle"
    /\ \/ /\ collect' = "iter"
          /\ ui' = "get"
          /\ UNCHANGED result_queue
       \/ /\ collect' = "unscheduled"
          /\ ui' = "get"
          /\ \E e \in Errors :
               result_queue' = result_queue \o << Item("error", e), DoneItem >>
       \/ /\ collect' = "unscheduled"
          /\ ui' = "raised"
          /\ UNCHANGED result_queue
    /\ UNCHANGED <<got, uiOthers>>

\* One turn of "async for item in async_gen_func()".
CollectItem ==
    /\ collect = "iter"
    /\ Len(result_queue) < MaxItems
    /\ \E item \in Items :
         result_queue' = Append(result_queue, Item("data", item))
    /\ UNCHANGED <<collect, ui, got, uiOthers>>

\* The generator raises, the finally clause being left out.
GeneratorRaises_NoFinally ==
    /\ collect = "iter"
    /\ \E e \in Errors :
         result_queue' = Append(result_queue, Item("error", e))
    /\ collect' = "completed"
    /\ UNCHANGED <<ui, got, uiOthers>>

\* The generator raises an Exception: "except Exception as e" puts it.
GeneratorRaises ==
    /\ collect = "iter"
    /\ \E e \in Errors :
         result_queue' = Append(result_queue, Item("error", e))
    /\ collect' = "finally"
    /\ UNCHANGED <<ui, got, uiOthers>>

\* The generator is exhausted, or the except clause is done: the finally
\* clause puts 'done' and collect_results returns.
CollectDone ==
    /\ collect \in {"iter", "finally"}
    /\ result_queue' = Append(result_queue, DoneItem)
    /\ collect' = "completed"
    /\ UNCHANGED <<ui, got, uiOthers>>

\* result_queue.get(timeout=1.0) returns an item: an error is raised and
\* displayed, 'done' and the EndResult break the loop, a pair is displayed.
\* With the queue empty the loop sleeps and goes on.
UiGet ==
    /\ ui = "get"
    /\ got < Len(result_queue)
    /\ got' = got + 1
    /\ LET item == result_queue[got + 1]
       IN ui' = CASE item.type = "error" -> "error"
                  [] item.type = "done" -> "done"
                  [] item.type = "data" /\ item.data = "end" -> "answer"
                  [] OTHER -> "get"
    /\ UNCHANGED <<collect, result_queue, uiOthers>>

\* More than max_timeout has passed: TimeoutError is raised and displayed.
UiTimeout ==
    /\ ui = "get"
    /\ ui' = "error"
    /\ UNCHANGED <<collect, result_queue, got, uiOthers>>

NextUi ==
    \/ RunAsyncGenerator
    \/ CollectItem
    \/ GeneratorRaises
    \/ CollectDone
    \/ UiGet
    \/ UiTimeout

SpecUi == Init /\ [][NextUi]_vars

\* The loop of the background thread runs collect_results to its end, the
\* generator yielding finitely many items, and the main thread runs the UI
\* loop.  The timeout is left without fairness.
FairSpecUi ==
    /\ SpecUi
    /\ WF_vars(CollectItem \/ GeneratorRaises \/ CollectDone)
    /\ WF_vars(UiGet)

ItemsOf(type) == {k \in DOMAIN result_queue : result_queue[k].type = type}

\* At most one 'done' and it is the last item put; at most one 'error',
\* with nothing but 'done' after it; collect_results has put 'done' when it
\* has returned, and the error before it when the generator has raised.
DoneIsLast ==
    LET n == Len(result_queue)
    IN /\ Cardinality(ItemsOf("done")) <= 1
       /\ ItemsOf("done") \subseteq {n}
       /\ Cardinality(ItemsOf("error")) <= 1
       /\ \A k \in ItemsOf("error") : \A j \in ItemsOf("data") : j < k
       /\ collect = "completed" => ItemsOf("done") = {n}
       /\ collect = "finally" => ItemsOf("error") = {n}

\* C38: in every run of collect_results, whether the search generator is
\* exhausted or raises, exactly one ('done', None) is put in result_queue
\* and it is the last item, after every ('data', item) and after the one
\* ('error', e) when the generator raised; and the UI loop that takes the
\* items comes to the EndResult, to 'done' or to the displayed error.
C38_DoneLastAndUiEnds ==
    /\ []DoneIsLast
    /\ (collect = "iter") ~> (ui \in {"answer", "done", "error"})

\* The generator has raised after two pairs: the two data items, the error
\* and 'done' are in the queue in that order, and the UI loop has taken the
\* error and displays it.
C38_Witness ==
    /\ collect = "completed"
    /\ Len(result_queue) = 4
    /\ ItemsOf("error") = {3}
    /\ result_queue[1].data = "pair"
    /\ result_queue[2].data = "pair"
    /\ ui = "error"
    /\ got = 3

====
